---- MODULE Spec2Model ----
(***************************************************************************)
(* Verification model of the corelms backend: the quiz session protocol   *)
(* (routers/quizzes.py), the import enqueue deduplication                  *)
(* (routers/admin.py) and the import / regeneration jobs                   *)
(* (services/module_import_jobs.py, services/quiz_regeneration_jobs.py).   *)
(*                                                                         *)
(* The specifications share the module; each one moves its own group of   *)
(* variables and leaves the others at their initial values:                *)
(*   SpecQuiz      start_quiz / submit_quiz against the Redis session store *)
(*   SpecEnqueue   enqueue_import_zip and the endpoints that release locks  *)
(*   SpecJobs      the worker jobs, cancellation, visibility, question CRUD *)
(*   SpecValidator the validation of generated questions                    *)
(*   SpecAi        the provider orchestrator and its time budget            *)
(*   SpecHeuristic the heuristic question generator                         *)
(*   SpecAssembly  the assembly of the final exam                           *)
(*   SpecRead      read confirmations and their XP                          *)
(*   SpecStage     stage timing in job.meta                                 *)
(*   SpecLearner   a learner's attempts across quiz regenerations           *)
(*   SpecCancel    job.meta between the worker's helpers and cancel_job     *)
(***************************************************************************)
EXTENDS Integers, Sequences, FiniteSets, TLC

\* ------------------------------------------------------------------------
\* Bounds of the model
\* ------------------------------------------------------------------------
MaxTime == 2
MaxStartCalls == 3
MaxDeletes == 3
MaxAnswers == 2
MaxEnqueues == 2
MaxLessons == 2
MaxJobRuns == 2
MaxAdminOps == 2
MaxQuizAttempts == 1

\* ------------------------------------------------------------------------
\* Generic helpers
\* ------------------------------------------------------------------------
Range(s) == {s[i] : i \in 1..Len(s)}

Min(a, b) == IF a < b THEN a ELSE b

Max(a, b) == IF a > b THEN a ELSE b

\* every ordering of a finite set: what random.shuffle can leave behind
Perms(S) == {s \in [1..Cardinality(S) -> S] : \A i, j \in 1..Cardinality(S) : s[i] = s[j] => i = j}

RECURSIVE FilterSeq(_, _)
FilterSeq(s, S) ==
    IF s = <<>> THEN <<>>
    ELSE IF Head(s) \in S THEN <<Head(s)>> \o FilterSeq(Tail(s), S)
    ELSE FilterSeq(Tail(s), S)

RECURSIVE Flatten(_)
Flatten(ss) == IF ss = <<>> THEN <<>> ELSE Head(ss) \o Flatten(Tail(ss))

\* ========================================================================
\* State
\* ========================================================================
\* --- quiz sessions ------------------------------------------------------
VARIABLES
    now,            \* wall clock, whole seconds
    quiz,           \* the quiz the learner works on (sessions of different
                    \* quizzes live under different keys and never interact)
    session,        \* Redis: the value under quiz_session:{user}:{quiz}
    qExists,        \* ids of the Question rows currently in the table
    readConfirmed,  \* a submodule_opened / read event exists for lesson S1
    call,           \* the in-flight start_quiz requests of the learner
    callsLeft,      \* start_quiz requests still to be issued
    attempts,       \* QuizAttempt rows, in insertion order
    startedEvents,  \* number of quiz_started LearningEvent rows
    lastStart,      \* ghost: started_at of the latest start, -1 if none
    lastReply,      \* the response of the latest start_quiz
    lastSubmit,     \* the status of the latest submit_quiz response
    deletesLeft     \* delete_question requests still to be issued

quizVars == << now, quiz, session, qExists, readConfirmed, call, callsLeft, attempts,
               startedEvents, lastStart, lastReply, lastSubmit, deletesLeft >>

\* --- import enqueue deduplication ---------------------------------------
VARIABLES
    s3Objects,            \* keys of the objects present in the bucket
    lockByObjectKey,      \* Redis admin:import_enqueued_by_object_key:{key}
    lockByFingerprint,    \* Redis admin:import_enqueued_by_fingerprint:{fp}
    lockByTitle,          \* Redis admin:import_enqueued_by_title:{norm}
    fingerprintByModule,  \* Redis admin:import_fingerprint_by_module_id:{id}
    modules,              \* committed Module rows: [id, title]
    rqJobs,               \* the jobs of the RQ queue, in creation order
    enq,                  \* the in-flight enqueue_import_zip requests
    enqLeft,              \* enqueue requests still to be issued
    lastEnq               \* the latest enqueue request and its response

enqVars == << s3Objects, lockByObjectKey, lockByFingerprint, lockByTitle,
              fingerprintByModule, modules, rqJobs, enq, enqLeft, lastEnq >>

\* --- jobs and the rows they write -----------------------------------------
VARIABLES
    module,         \* the Module row: [exists, active (is_active), final (final_quiz_id)]
    subQuiz,        \* Submodule.quiz_id of each lesson: its active quiz
    questionRows,   \* committed Question rows, in batches: [quiz, tag, n, run, lesson]
    quizRows,       \* committed Quiz rows: their ids
    attemptRows,    \* committed QuizAttempt rows with their QuizAttemptAnswer rows
    tx,             \* the uncommitted writes of the regeneration job's session
    nextQuizId,     \* the next Quiz id
    job,            \* the job the worker is running and where it stands
    jobMeta,        \* job.meta: stage, cancel_requested, job_kind
    outcome,        \* how the latest job ended
    runs,           \* number of jobs started so far (the running one is number runs)
    flagLesson,     \* ghost: the lesson in progress when the flag was set, 0 if none
    processed,      \* ghost: the lessons the running regeneration has begun to process
    subQuizBefore,  \* ghost: subQuiz when the latest regeneration started
    adminOpsLeft    \* admin requests still to be issued

jobVars == << module, subQuiz, questionRows, quizRows, attemptRows, tx, nextQuizId, job, jobMeta, outcome, runs,
              flagLesson, processed, subQuizBefore, adminOpsLeft >>

\* --- validation of AI output -------------------------------------------
VARIABLES
    cand,           \* the candidate question the validator is given
    seen_prompts,   \* the normalized prompts _filter_questions has accepted
    accepted,       \* the out list of _filter_questions
    validated       \* how many times the candidate has been validated

validatorVars == << cand, seen_prompts, accepted, validated >>

\* --- the provider orchestrator -------------------------------------------
VARIABLES
    orch,           \* generate_quiz_questions_ai: its arguments, locals and position
    elapsed,        \* time.monotonic() - t_start
    debug_out,      \* the caller's debug dict
    returned,       \* the list returned, once orch.pc is done
    aiLog           \* ghost: one entry per provider call made

aiVars == << orch, elapsed, debug_out, returned, aiLog >>

\* --- the heuristic generator ---------------------------------------------
VARIABLES
    heur            \* generate_quiz_questions_heuristic: arguments, locals, position

heurVars == << heur >>

\* --- final-exam assembly -------------------------------------------------
VARIABLES
    asm             \* _select_final_question_ids_from_lessons: module, pools, result

asmVars == << asm >>

\* --- read confirmations ----------------------------------------------------
VARIABLES
    events,         \* committed submodule_opened rows of the learner for the lesson: their meta
    xp,             \* committed users.xp of the learner
    rowLock,        \* the request whose transaction holds the lock of the users row, 0 if none
    rd,             \* the in-flight read_submodule requests of the learner
    awards,         \* xp_awarded of the responses, in the order they were sent
    readsLeft,      \* read_submodule requests still to be issued
    opensLeft,      \* open_submodule requests still to be issued
    autoflush       \* the autoflush setting of the session factory

readVars == << events, xp, rowLock, rd, awards, readsLeft, opensLeft, autoflush >>

\* --- stage timing in job.meta ------------------------------------------------
VARIABLES
    utcnow,         \* datetime.utcnow(), whole seconds
    stageMeta,      \* job.meta: stage, stage_started_at, job_started_at, stage_durations_s
    stageSite,      \* the call of _set_job_stage the job made last
    firstStageAt    \* ghost: utcnow at the job's first _set_job_stage, NoValue before it

stageVars == << utcnow, stageMeta, stageSite, firstStageAt >>

\* --- the learner against versioned lesson quizzes ---------------------------
VARIABLES
    lessonQuiz,     \* Submodule.quiz_id of each submodule of the module, by order
    regens,         \* number of regeneration jobs that have committed
    readSubs,       \* submodules with a submodule_opened / read event of the learner
    sessionOf,      \* Redis: the value under quiz_session:{user}:{quiz}, per quiz
    attemptCount,   \* number of QuizAttempt rows of the learner, per quiz
    passCount,      \* number of those rows with passed = true, per quiz
    served,         \* ghost: the ids the latest start served and no submit has used, per quiz
    userXp,         \* users.xp of the learner
    lastOp,         \* the latest request of the learner and its response
    startsLeft,     \* start_quiz requests still to be issued
    submitsLeft     \* submit_quiz requests still to be issued

learnVars == << lessonQuiz, regens, readSubs, sessionOf, attemptCount, passCount, served,
                userXp, lastOp, startsLeft, submitsLeft >>

\* --- job.meta between the worker and cancel_job ------------------------------
VARIABLES
    redisMeta,      \* Redis: the meta field of the job's hash
    workerMeta,     \* job.meta of the Job instance the worker's helpers use
    worker,         \* where the job stands: script, position, meta loaded, how it ended
    adminReq,       \* the cancel_job request: its position and its copy of job.meta
    rqFetches       \* the installed RQ's get_current_job fetches the job from Redis

cancelVars == << redisMeta, workerMeta, worker, adminReq, rqFetches >>

otherThanQuiz == << enqVars, jobVars, validatorVars, aiVars, heurVars, asmVars, readVars, stageVars, learnVars, cancelVars >>

otherThanEnqueue == << quizVars, jobVars, validatorVars, aiVars, heurVars, asmVars, readVars, stageVars, learnVars, cancelVars >>

otherThanJobs == << quizVars, enqVars, validatorVars, aiVars, heurVars, asmVars, readVars, stageVars, learnVars, cancelVars >>

otherThanValidator == << quizVars, enqVars, jobVars, aiVars, heurVars, asmVars, readVars, stageVars, learnVars, cancelVars >>

otherThanAi == << quizVars, enqVars, jobVars, validatorVars, heurVars, asmVars, readVars, stageVars, learnVars, cancelVars >>

otherThanHeuristic == << quizVars, enqVars, jobVars, validatorVars, aiVars, asmVars, readVars, stageVars, learnVars, cancelVars >>

otherThanAssembly == << quizVars, enqVars, jobVars, validatorVars, aiVars, heurVars, readVars, stageVars, learnVars, cancelVars >>

otherThanRead == << quizVars, enqVars, jobVars, validatorVars, aiVars, heurVars, asmVars, stageVars, learnVars, cancelVars >>

otherThanStage == << quizVars, enqVars, jobVars, validatorVars, aiVars, heurVars, asmVars, readVars, learnVars, cancelVars >>

otherThanLearner == << quizVars, enqVars, jobVars, validatorVars, aiVars, heurVars, asmVars, readVars, stageVars, cancelVars >>

otherThanCancel == << quizVars, enqVars, jobVars, validatorVars, aiVars, heurVars, asmVars, readVars, stageVars, learnVars >>

vars == << quizVars, enqVars, jobVars, validatorVars, aiVars, heurVars, asmVars, readVars, stageVars, learnVars, cancelVars >>
\* ========================================================================
\* PART A.  Quiz sessions (routers/quizzes.py)
\* ========================================================================

\* --- the relational content the quiz endpoints read ----------------------
\* One module with lesson S1 (quiz LQ) and the last submodule SF (the final
\* slot, quiz SQ); the module's final quiz is FQ.
Quizzes == {"LQ", "FQ"}

QuestionIds == {"q1", "q2", "q3"}

\* Question.quiz_id
QuestionQuiz == [q \in QuestionIds |-> "LQ"]

\* Question.variant_group ("" when the column is NULL)
VariantGroup == [q \in QuestionIds |-> IF q \in {"q2", "q3"} THEN "g" ELSE ""]

\* Submodules of the module ordered by Submodule.order, with their quiz_id
Submodules == << [id |-> "S1", quiz |-> "LQ"], [id |-> "SF", quiz |-> "SQ"] >>

\* Quiz.time_limit in seconds; 0 stands for NULL (no limit)
LessonTimeLimit == 1

TimeLimit == [z \in Quizzes |-> IF z = "LQ" THEN LessonTimeLimit ELSE 0]

PassThreshold == 70

DefaultSessionTtl == 3600

TargetMin == 10

_is_final_quiz(z) == z = "FQ"

\* --- identifiers as the client sends them --------------------------------
\* uuid.UUID(text) accepts several spellings of one UUID and raises
\* ValueError on anything else.  "Q1" is another spelling of q1's UUID,
\* "q9" is a UUID that names no question, "zz" is not a UUID at all.
SuppliedIds == {"q1", "q2", "q9", "Q1", "zz"}

UuidOk(s) == s # "zz"

UuidParse(s) == IF s = "Q1" THEN "q1" ELSE s

Callers == {1, 2}

NoSession == [present |-> FALSE, qids |-> <<>>, started |-> 0, exp |-> 0]

\* at: the time of the request's Redis read
IdleCall == [pc |-> "idle", at |-> 0]

\* a start_quiz response: the status and the question ids in the order returned
NoReply == [status |-> "none", reused |-> FALSE, result |-> <<>>]

\* no request has been made yet
QuizIdle ==
    /\ now = 0
    /\ session = NoSession
    /\ qExists = QuestionIds
    /\ readConfirmed = FALSE
    /\ call = [p \in Callers |-> IdleCall]
    /\ callsLeft = MaxStartCalls
    /\ attempts = <<>>
    /\ startedEvents = 0
    /\ lastStart = -1
    /\ lastReply = NoReply
    /\ lastSubmit = "none"
    /\ deletesLeft = MaxDeletes

\* the session key is never found
SessionNeverFound == NoSession

\* r.get(key): a key whose TTL has run out is gone
RedisGet == IF session.present /\ session.exp > now THEN session ELSE NoSession

\* ex=quiz.time_limit if quiz.time_limit else 60 * 60
SessionTtl(z) == IF TimeLimit[z] # 0 THEN TimeLimit[z] ELSE DefaultSessionTtl

\* --- _select_final_question_ids_from_lessons ------------------------------
\* the question pools of the lesson submodules: every submodule but the last
\* one, in order, whose quiz has at least one question
LessonPoolSets ==
    LET lessons == SubSeq(Submodules, 1, Len(Submodules) - 1)
        poolOf(i) == {q \in qExists : QuestionQuiz[q] = lessons[i].quiz}
        nonEmpty == {i \in 1..Len(lessons) : poolOf(i) # {}}
        RECURSIVE build(_)
        build(i) == IF i > Len(lessons) THEN <<>>
                    ELSE IF i \in nonEmpty THEN <<poolOf(i)>> \o build(i + 1)
                    ELSE build(i + 1)
    IN build(1)

\* one question per pool only
TakeOnePerPool(pools) == [i \in 1..Len(pools) |-> SubSeq(pools[i], 1, Min(1, Len(pools[i])))]

\* Phase 1: up to 2 questions per pool, popped from the front
Phase1Taken(pools) == [i \in 1..Len(pools) |-> SubSeq(pools[i], 1, Min(2, Len(pools[i])))]

Phase1Rest(pools) == [i \in 1..Len(pools) |-> SubSeq(pools[i], Min(2, Len(pools[i])) + 1, Len(pools[i]))]

\* one round-robin pass of phase 2 starting at pool i: <<selected, pools, progressed>>
RECURSIVE Phase2Pass(_, _, _, _)
Phase2Pass(selected, pools, i, progressed) ==
    IF i > Len(pools) \/ Len(selected) >= TargetMin THEN << selected, pools, progressed >>
    ELSE IF pools[i] # <<>>
         THEN Phase2Pass(Append(selected, Head(pools[i])),
                         [pools EXCEPT ![i] = Tail(pools[i])], i + 1, TRUE)
         ELSE Phase2Pass(selected, pools, i + 1, progressed)

\* an assembly without the second phase
Phase2Skipped(selected, pools) == selected

RECURSIVE Phase2(_, _)
Phase2(selected, pools) ==
    IF Len(selected) >= TargetMin THEN selected
    ELSE LET pass == Phase2Pass(selected, pools, 1, FALSE)
         IN IF pass[3] THEN Phase2(pass[1], pass[2]) ELSE pass[1]

\* the ids selected from pools that were already shuffled
SelectFromPools(pools) == Phase2(Flatten(Phase1Taken(pools)), Phase1Rest(pools))

\* all outcomes of the seeded shuffles: one ordering per pool, then one of the result
RECURSIVE ShuffledPools(_)
ShuffledPools(sets) ==
    IF sets = <<>> THEN { <<>> }
    ELSE {<<h>> \o t : h \in Perms(Head(sets)), t \in ShuffledPools(Tail(sets))}

_select_final_question_ids_from_lessons ==
    UNION { Perms(Range(SelectFromPools(pools))) : pools \in ShuffledPools(LessonPoolSets) }

\* --- the selection of start_quiz -----------------------------------------
\* non-final quiz: one random variant per variant group, every ungrouped
\* question, shuffled
LessonSelections(z) ==
    LET questions == {q \in qExists : QuestionQuiz[q] = z}
        groups == {VariantGroup[q] : q \in questions} \ {""}
        singles == {q \in questions : VariantGroup[q] = ""}
        choices == {c \in SUBSET questions :
                        /\ \A q \in c : VariantGroup[q] # ""
                        /\ \A g \in groups : Cardinality({q \in c : VariantGroup[q] = g}) = 1}
    IN UNION { Perms(c \cup singles) : c \in choices }

\* final quiz: the assembled ids that still resolve to rows, shuffled again
FinalSelections ==
    UNION { Perms(Range(FilterSeq(ids, qExists))) : ids \in _select_final_question_ids_from_lessons }


\* --- start_quiz ----------------------------------------------------------
\* The handler is two steps, because other requests and the clock can move
\* between its Redis read and its Redis write.

\* the order in which the Question table returns rows
TableOrder == << "q1", "q2", "q3" >>

\* the reused questions in the order of the table instead of the session's
ReusedInTableOrder(existing) == FilterSeq(TableOrder, Range(existing) \cap qExists)

\* lines 259-284: an existing session is returned as it is, restricted to the
\* questions that still exist
ReusedQuestions(existing) == FilterSeq(existing, qExists)

\* lines 204-284: load the quiz, require the read confirmation for a lesson
\* quiz, read the existing session (never for a final quiz) and answer from it
\* when there is one.  Redis is reachable throughout (get_redis() and the
\* commands do not raise), so the request's client r is never None.
StartRead(p) ==
    /\ lastSubmit = "none"
    /\ call[p].pc = "idle"
    /\ \A o \in Callers : o < p => call[o].pc # "idle"
    /\ callsLeft > 0
    /\ callsLeft' = callsLeft - 1
    /\ LET existing_raw == IF _is_final_quiz(quiz) THEN NoSession ELSE RedisGet
       IN IF ~_is_final_quiz(quiz) /\ ~readConfirmed
          THEN /\ lastReply' = [NoReply EXCEPT !.status = "403"]
               /\ UNCHANGED call
          ELSE IF existing_raw.present /\ existing_raw.qids # <<>>
          THEN /\ lastReply' = [status |-> "200", reused |-> TRUE,
                                result |-> ReusedQuestions(existing_raw.qids)]
               /\ UNCHANGED call
          ELSE /\ call' = [call EXCEPT ![p] = [pc |-> "read", at |-> now]]
               /\ UNCHANGED lastReply
    /\ UNCHANGED << now, quiz, session, qExists, readConfirmed, attempts, startedEvents,
                    lastStart, lastSubmit, deletesLeft >>
    /\ UNCHANGED otherThanQuiz

\* lines 286-333: what a fresh start may select
StartSelections(z) == IF _is_final_quiz(z) THEN FinalSelections ELSE LessonSelections(z)

\* lines 335-338: the payload start_quiz stores under the session key;
\* started_at is read from the clock before the SET reaches Redis
SessionPayload(selected, started_at) ==
    [present |-> TRUE, qids |-> selected, started |-> started_at, exp |-> now + SessionTtl(quiz)]

\* the checks for an empty selection left out
SourceCheckSkipped(selections) == FALSE

\* lines 291-292, 302-303, 308-309 (final quiz) and 312-313 (lesson quiz):
\* nothing was selected
NoSourceQuestions(selections) == selections = {} \/ selections = { <<>> }

\* lines 286-379: select the questions, write the session (a plain SET with a
\* TTL), record the quiz_started event, commit and answer
StartWrite(p) ==
    /\ lastSubmit = "none"
    /\ call[p].pc = "read"
    /\ call' = [call EXCEPT ![p] = IdleCall]
    /\ IF NoSourceQuestions(StartSelections(quiz))
       THEN /\ lastReply' = [NoReply EXCEPT !.status = IF _is_final_quiz(quiz) THEN "409" ELSE "400"]
            /\ UNCHANGED << session, lastStart, startedEvents >>
       ELSE \E selected \in StartSelections(quiz), started_at \in call[p].at .. now :
               /\ session' = SessionPayload(selected, started_at)
               /\ lastReply' = [status |-> "200", reused |-> FALSE, result |-> selected]
               /\ lastStart' = started_at
               /\ startedEvents' = startedEvents + 1
    /\ UNCHANGED << now, quiz, qExists, readConfirmed, callsLeft, attempts, lastSubmit, deletesLeft >>
    /\ UNCHANGED otherThanQuiz

\* --- submit_quiz ---------------------------------------------------------
\* the fraction cut off instead of rounded
ScoreTruncated(correct, total) == IF total = 0 THEN 0 ELSE (100 * correct) \div total

\* int(round((correct / total) * 100)): Python rounds a tie to the even integer
Score(correct, total) ==
    IF total = 0 THEN 0
    ELSE LET n == 100 * correct
             q == n \div total
             r == n % total
         IN IF 2 * r < total THEN q
            ELSE IF 2 * r > total THEN q + 1
            ELSE IF q % 2 = 0 THEN q ELSE q + 1

\* lines 439-477: the quizzes a submitted question may belong to
AllowedQuizIds(z) ==
    IF _is_final_quiz(z)
    THEN {Submodules[i].quiz : i \in 1..(Len(Submodules) - 1)}
    ELSE {z}

\* lines 432-437: ids that do not parse as a UUID are skipped
ParsedQuestionIds(ids) == {UuidParse(s) : s \in {t \in ids : UuidOk(t)}}

\* lines 468-481: the rows found for the parsed ids must be as many as the ids
QuestionsValid(z, ids) ==
    LET parsed == ParsedQuestionIds(ids)
        qmap == {q \in parsed : q \in qExists /\ QuestionQuiz[q] \in AllowedQuizIds(z)}
    IN Cardinality(qmap) = Cardinality(parsed)

\* a supplied id belongs to the quiz when it names an existing question of it
Belongs(z, s) ==
    /\ UuidOk(s)
    /\ UuidParse(s) \in qExists
    /\ QuestionQuiz[UuidParse(s)] \in AllowedQuizIds(z)

\* The whole handler.  answered: the question ids of body.answers; right:
\* those among them whose answer _is_correct accepts.
SubmitQuiz(answered, right) ==
    LET z == quiz
        raw == RedisGet
        fallback == ~raw.present
        question_ids == IF fallback THEN answered ELSE Range(raw.qids)
        time_spent == IF fallback THEN -1 ELSE Max(0, now - raw.started)
        total == Cardinality(question_ids)
        correct == Cardinality({s \in question_ids :
                        /\ s \in qExists
                        /\ s \in right
                        /\ QuestionQuiz[s] \in AllowedQuizIds(z)})
        score == Score(correct, total)
        reject(code) ==
            /\ lastSubmit' = code
            /\ UNCHANGED << session, attempts, lastStart >>
    IN /\ right \subseteq answered
       /\ lastSubmit = "none"
       /\ IF fallback /\ question_ids = {} THEN reject("409 session not found")
          ELSE IF ~fallback /\ TimeLimit[z] # 0 /\ time_spent > TimeLimit[z]
          THEN reject("409 time limit exceeded")
          ELSE IF _is_final_quiz(z) /\ AllowedQuizIds(z) = {} THEN reject("409 no source quizzes")
          ELSE IF ~QuestionsValid(z, question_ids) THEN reject("409 invalid questions")
          ELSE /\ attempts' = Append(attempts,
                      [fallback |-> fallback,
                       allBelong |-> \A s \in answered : Belongs(z, s),
                       sinceStart |-> IF lastStart < 0 THEN -1 ELSE now - lastStart,
                       time_spent |-> time_spent, correct |-> correct, total |-> total,
                       score |-> score, passed |-> score >= PassThreshold])
               /\ session' = NoSession
               /\ lastStart' = -1
               /\ lastSubmit' = "200"
       /\ UNCHANGED << now, quiz, qExists, readConfirmed, call, callsLeft, startedEvents, lastReply,
                       deletesLeft >>
       /\ UNCHANGED otherThanQuiz

\* --- the environment of the quiz endpoints --------------------------------
\* read_submodule: the learner confirms reading lesson S1
ConfirmRead ==
    /\ ~readConfirmed
    /\ ~_is_final_quiz(quiz)
    /\ lastSubmit = "none"
    /\ readConfirmed' = TRUE
    /\ UNCHANGED << now, quiz, session, qExists, call, callsLeft, attempts, startedEvents,
                    lastStart, lastReply, lastSubmit, deletesLeft >>
    /\ UNCHANGED otherThanQuiz

\* admin delete_question
DeleteQuestion(q) ==
    /\ deletesLeft > 0
    /\ lastSubmit = "none"
    /\ q \in qExists
    /\ qExists' = qExists \ {q}
    /\ deletesLeft' = deletesLeft - 1
    /\ UNCHANGED << now, quiz, session, readConfirmed, call, callsLeft, attempts, startedEvents,
                    lastStart, lastReply, lastSubmit >>
    /\ UNCHANGED otherThanQuiz

\* one second passes; Redis drops the keys whose TTL has run out
Tick ==
    /\ now < MaxTime
    /\ lastSubmit = "none"
    /\ now' = now + 1
    /\ session' = IF session.present /\ session.exp <= now + 1 THEN NoSession ELSE session
    /\ UNCHANGED << quiz, qExists, readConfirmed, call, callsLeft, attempts, startedEvents,
                    lastStart, lastReply, lastSubmit, deletesLeft >>
    /\ UNCHANGED otherThanQuiz

\* the bodies a learner may submit: up to MaxAnswers answered ids
AnswerSets == {a \in SUBSET SuppliedIds : Cardinality(a) <= MaxAnswers}

\* ========================================================================
\* PART B.  Import enqueue deduplication (routers/admin.py)
\* ========================================================================

\* --- uploads in object storage ------------------------------------------
\* k1 and k2 are two uploads of the same archive.
ObjectKeys == {"k1", "k2"}

\* head_object: the ETag and ContentLength of each uploaded object
Etag == [k \in ObjectKeys |-> "e1"]

ArchiveSize == 10

ContentLength == [k \in ObjectKeys |-> ArchiveSize]

NoFingerprint == << >>

\* body.title as the admin types it; "" when the field is left out
Titles == {"", "INTRO "}

\* str(title).strip()
Strip(t) == IF t = "INTRO " THEN "INTRO" ELSE t

\* func.lower / str.lower
Lower(t) == IF t = "INTRO" THEN "intro" ELSE t

\* re.sub(r"\s+", " ", title).strip().lower()
NormTitle(t) == Lower(Strip(t))

\* the title an untitled import's stub module gets
DefaultStubTitle == "Module"

Admins == {1, 2}

\* 0 stands for "no job id" (the key is absent)
NoJob == 0

\* seen: how many jobs existed when the request made its checks; live: the
\* unfinished jobs for the same fingerprint at that moment
IdleEnq == [pc |-> "idle", key |-> "", title |-> "", fp |-> NoFingerprint, seen |-> 0, live |-> {}]

NoEnq == [status |-> "none", named |-> NoJob, key |-> ""]

\* lines 1446-1456: the fingerprint is etag:size of the object, "" when the
\* object cannot be read
Fingerprint(key) ==
    IF key \in s3Objects THEN << Etag[key], ContentLength[key] >> ELSE NoFingerprint

Fingerprints == {<< Etag[k], ContentLength[k] >> : k \in ObjectKeys}

NormTitles == {NormTitle(t) : t \in Titles} \ {""}

EnqIdle ==
    /\ s3Objects = ObjectKeys
    /\ lockByObjectKey = [k \in ObjectKeys |-> NoJob]
    /\ lockByFingerprint = [f \in Fingerprints |-> NoJob]
    /\ lockByTitle = [t \in NormTitles |-> NoJob]
    /\ fingerprintByModule = [m \in 1..MaxEnqueues |-> NoFingerprint]
    /\ modules = {}
    /\ rqJobs = << >>
    /\ enq = [p \in Admins |-> IdleEnq]
    /\ enqLeft = MaxEnqueues
    /\ lastEnq = NoEnq

\* --- enqueue_import_zip ---------------------------------------------------
\* The handler is two steps, because other requests can move between its lock
\* reads (GET) and its lock writes (SET after the job is enqueued).

\* the fingerprint lock is not consulted
FingerprintLockIgnored(fp) == NoJob

\* lines 1471-1481: the job id the fingerprint lock holds, NoJob if none
FingerprintLockHolder(fp) == IF fp = NoFingerprint THEN NoJob ELSE lockByFingerprint[fp]

\* lines 1483-1492: a committed module already carries the title
TitleExists(title) == \E m \in modules : Lower(m.title) = Lower(title)

\* lines 1442-1536: fingerprint the object, read the three locks and the
\* module table; any hit answers 409, a missing object 404
EnqCheck(p, key, raw_title) ==
    /\ enq[p].pc = "idle"
    /\ \A o \in Admins : o < p => enq[o].pc # "idle"
    /\ enqLeft > 0
    /\ enqLeft' = enqLeft - 1
    /\ LET fingerprint == Fingerprint(key)
           title == Strip(raw_title)
           norm_title == IF title = "" THEN "" ELSE NormTitle(raw_title)
           existing_job_id == lockByObjectKey[key]
           existing_fp_job_id == FingerprintLockHolder(fingerprint)
           existing_title_job_id == IF norm_title = "" THEN NoJob ELSE lockByTitle[norm_title]
           reply(status, named) ==
               /\ lastEnq' = [status |-> status, named |-> named, key |-> key]
               /\ UNCHANGED enq
       IN IF existing_job_id # NoJob THEN reply("409 zip already enqueued", existing_job_id)
          ELSE IF existing_fp_job_id # NoJob
          THEN reply("409 zip already enqueued (fingerprint)", existing_fp_job_id)
          ELSE IF title # "" /\ TitleExists(title) THEN reply("409 module title already exists", NoJob)
          ELSE IF existing_title_job_id # NoJob
          THEN reply("409 module title already enqueued", existing_title_job_id)
          ELSE IF fingerprint = NoFingerprint THEN reply("404 source zip not found", NoJob)
          ELSE /\ enq' = [enq EXCEPT ![p] =
                            [pc |-> "checked", key |-> key, title |-> title, fp |-> fingerprint,
                             seen |-> Len(rqJobs),
                             live |-> {j \in 1..Len(rqJobs) :
                                         rqJobs[j].fp = fingerprint /\ rqJobs[j].status # "finished"}]]
               /\ lastEnq' = [status |-> "pending", named |-> NoJob, key |-> key]
    /\ UNCHANGED << s3Objects, lockByObjectKey, lockByFingerprint, lockByTitle,
                    fingerprintByModule, modules, rqJobs >>
    /\ UNCHANGED otherThanEnqueue

\* two jobs share a dedup key: the object key, the fingerprint or the title
SharesDedupKey(j, key, fp, norm_title) ==
    \/ rqJobs[j].key = key
    \/ rqJobs[j].fp = fp
    \/ (norm_title # "" /\ rqJobs[j].title = norm_title)

\* lines 1538-1594: enqueue the job, commit the stub module, and only then
\* write the locks (SET + EXPIRE) and the module's reverse mapping
EnqEnqueue(p) ==
    /\ enq[p].pc = "checked"
    /\ LET c == enq[p]
           id == Len(rqJobs) + 1
           norm_title == IF c.title = "" THEN "" ELSE Lower(c.title)
           stub_title == IF c.title = "" THEN DefaultStubTitle ELSE c.title
       IN /\ rqJobs' = Append(rqJobs,
                 [key |-> c.key, fp |-> c.fp, title |-> norm_title, status |-> "queued",
                  raced |-> {j \in (c.seen + 1)..Len(rqJobs) :
                                SharesDedupKey(j, c.key, c.fp, norm_title)},
                  dupOf |-> c.live])
          /\ modules' = modules \cup {[id |-> id, title |-> stub_title]}
          /\ lockByObjectKey' = [lockByObjectKey EXCEPT ![c.key] = id]
          /\ lockByTitle' = IF norm_title = "" THEN lockByTitle
                            ELSE [lockByTitle EXCEPT ![norm_title] = id]
          /\ lockByFingerprint' = [lockByFingerprint EXCEPT ![c.fp] = id]
          /\ fingerprintByModule' = [fingerprintByModule EXCEPT ![id] = c.fp]
          /\ lastEnq' = [status |-> "200", named |-> id, key |-> c.key]
    /\ enq' = [enq EXCEPT ![p] = IdleEnq]
    /\ UNCHANGED << s3Objects, enqLeft >>
    /\ UNCHANGED otherThanEnqueue

\* --- what releases the locks ------------------------------------------------
\* the TTL of a lock runs out (6 hours for object key and fingerprint, 30 days
\* for the title); a queued job waits for a worker without any limit
LockExpire ==
    /\ \/ \E k \in ObjectKeys :
            /\ lockByObjectKey[k] # NoJob
            /\ lockByObjectKey' = [lockByObjectKey EXCEPT ![k] = NoJob]
            /\ UNCHANGED << lockByFingerprint, lockByTitle >>
       \/ \E f \in Fingerprints :
            /\ lockByFingerprint[f] # NoJob
            /\ lockByFingerprint' = [lockByFingerprint EXCEPT ![f] = NoJob]
            /\ UNCHANGED << lockByObjectKey, lockByTitle >>
       \/ \E t \in NormTitles :
            /\ lockByTitle[t] # NoJob
            /\ lockByTitle' = [lockByTitle EXCEPT ![t] = NoJob]
            /\ UNCHANGED << lockByObjectKey, lockByFingerprint >>
    /\ UNCHANGED << s3Objects, fingerprintByModule, modules, rqJobs, enq, enqLeft, lastEnq >>
    /\ UNCHANGED otherThanEnqueue

\* delete_module, lines 2072-2163: the rows go, and the fingerprint lock the
\* reverse mapping points to is released
DeleteModule(mid) ==
    /\ \E m \in modules : m.id = mid
    /\ modules' = {m \in modules : m.id # mid}
    /\ LET fp == fingerprintByModule[mid]
       IN lockByFingerprint' = IF fp = NoFingerprint THEN lockByFingerprint
                               ELSE [lockByFingerprint EXCEPT ![fp] = NoJob]
    /\ fingerprintByModule' = [fingerprintByModule EXCEPT ![mid] = NoFingerprint]
    /\ UNCHANGED << s3Objects, lockByObjectKey, lockByTitle, rqJobs, enq, enqLeft, lastEnq >>
    /\ UNCHANGED otherThanEnqueue

\* abort_import_zip, lines 977-1039: the object is deleted and the lock of its
\* fingerprint released
AbortImportZip(key) ==
    /\ key \in s3Objects
    /\ s3Objects' = s3Objects \ {key}
    /\ lockByFingerprint' = [lockByFingerprint EXCEPT ![Fingerprint(key)] = NoJob]
    /\ UNCHANGED << lockByObjectKey, lockByTitle, fingerprintByModule, modules, rqJobs, enq,
                    enqLeft, lastEnq >>
    /\ UNCHANGED otherThanEnqueue

\* enqueue_import_zip, line 1562: jm["job_kind"] = "import"
JobKind(j) == "import"

\* cancel_job, lines 1942-1993, for an import job: a job whose job_kind is
\* set and is not "regen" is refused with 409 before anything is written;
\* any other job has the three locks named in its meta deleted
CancelImportJob(j) ==
    /\ j \in 1..Len(rqJobs)
    /\ IF JobKind(j) \notin {"", "regen"}
       THEN /\ lastEnq' = [status |-> "409 job is not cancellable", named |-> j, key |-> rqJobs[j].key]
            /\ UNCHANGED << lockByObjectKey, lockByTitle, lockByFingerprint >>
       ELSE /\ lastEnq' = [status |-> "200 canceled", named |-> j, key |-> rqJobs[j].key]
            /\ lockByObjectKey' = [lockByObjectKey EXCEPT ![rqJobs[j].key] = NoJob]
            /\ lockByTitle' = IF rqJobs[j].title = "" THEN lockByTitle
                              ELSE [lockByTitle EXCEPT ![rqJobs[j].title] = NoJob]
            /\ lockByFingerprint' = [lockByFingerprint EXCEPT ![rqJobs[j].fp] = NoJob]
    /\ UNCHANGED << s3Objects, fingerprintByModule, modules, rqJobs, enq, enqLeft >>
    /\ UNCHANGED otherThanEnqueue

\* the worker ends a job (whatever its outcome); no lock is released by it
JobFinish(j) ==
    /\ j \in 1..Len(rqJobs)
    /\ rqJobs[j].status = "queued"
    /\ rqJobs' = [rqJobs EXCEPT ![j].status = "finished"]
    /\ UNCHANGED << s3Objects, lockByObjectKey, lockByFingerprint, lockByTitle,
                    fingerprintByModule, modules, enq, enqLeft, lastEnq >>
    /\ UNCHANGED otherThanEnqueue

\* ========================================================================
\* PART C.  Import and regeneration jobs (services/module_import_jobs.py,
\*          services/module_importer.py, services/quiz_regeneration_jobs.py)
\*          and the admin endpoints that touch their rows (routers/admin.py)
\* ========================================================================

\* the lessons (submodules) of the imported archive, by Submodule.order
Lessons == 1..MaxLessons

\* "Product rule: each lesson must have exactly 5 questions."
TargetQuestions == 5

\* a quiz id that is not set (Submodule.quiz_id / Module.final_quiz_id NULL)
NoQuiz == 0

\* --- provenance tags -----------------------------------------------------
\* Question.concept_tag is text whose ':'-separated head says where the
\* question came from; a tag is modelled as the sequence of its segments.
ImportPlaceholderTag == << "needs_regen", "import" >>

RegenAiTag == << "regen" >>

RegenHeuristicTag == << "heur" >>

RegenFallbackTag(ai_failed) ==
    IF ai_failed THEN << "needs_regen", "regen", "fallback" >> ELSE << "regen", "fallback" >>

\* concept_tag LIKE 'needs_regen:%'
NeedsRegen(tag) == Len(tag) >= 2 /\ tag[1] = "needs_regen"

\* the concept_tag values an admin sends to create_question / update_question
AdminTags == { << >>, << "manual" >>, << "needs_regen", "manual" >>, << "needs_regen" >> }

\* --- jobs ------------------------------------------------------------------
NoJobRun == [kind |-> "none", pc |-> "", lesson |-> 0, ai_ok |-> FALSE,
             force_ai |-> FALSE, only_missing |-> FALSE, single |-> FALSE]

\* the outcome of the latest finished job
NoOutcome == [kind |-> "none", result |-> "none", stage |-> "", observed |-> "",
              error_code |-> "", error_hint |-> FALSE]

NoTx == [open |-> FALSE, subQuiz |-> << >>, quizzes |-> {}, questions |-> {}]

JobsIdle ==
    /\ module = [exists |-> FALSE, active |-> FALSE, final |-> NoQuiz]
    /\ subQuiz = [l \in Lessons |-> NoQuiz]
    /\ questionRows = {}
    /\ quizRows = {}
    /\ attemptRows = {}
    /\ tx = NoTx
    /\ nextQuizId = 1
    /\ job = NoJobRun
    /\ jobMeta = [stage |-> "", cancel_requested |-> FALSE, job_kind |-> ""]
    /\ outcome = NoOutcome
    /\ runs = 0
    /\ flagLesson = 0
    /\ processed = {}
    /\ subQuizBefore = [l \in Lessons |-> NoQuiz]
    /\ adminOpsLeft = MaxAdminOps

\* a job that never reads the flag
FlagNeverRead == FALSE

\* _is_cancel_requested: the flag as the job reads it from its meta
CancelRequested == jobMeta.cancel_requested

\* the job function is left: by a return value ("ok", "canceled" for
\* {ok: false, canceled: true}) or by an exception ("raised"); stage is the
\* last stage written to job.meta, observed the checkpoint that saw the flag
\* quiz_regeneration_jobs.py line 115: the code _set_job_error leaves in
\* job.meta; "" stands for a call without error_code
_set_job_error(error_code) == IF error_code = "" THEN "REGEN_FAILED" ELSE error_code

\* lines 420-427 and 721-728: an exception raised inside the job's try block
\* reaches `except Exception as e`, which calls _set_job_error(error=e) over
\* the code that the raise site stored
RegenFailureCode(raise_site_code) == _set_job_error("")

EndJob(result, stage, observed, error_code, error_hint) ==
    /\ outcome' = [kind |-> job.kind, result |-> result, stage |-> stage, observed |-> observed,
                   error_code |-> error_code, error_hint |-> error_hint]
    /\ jobMeta' = [jobMeta EXCEPT !.stage = stage]
    /\ job' = NoJobRun

\* the job goes on to its next step
Proceed(pc, stage) ==
    /\ job' = [job EXCEPT !.pc = pc]
    /\ jobMeta' = [jobMeta EXCEPT !.stage = stage]
    /\ UNCHANGED outcome

\* --- import_module_zip_job -------------------------------------------------
\* The worker calls the job with the keyword arguments it was enqueued with.
\* with_module_id: the caller passed module_id=..., as the three enqueue sites
\* of routers/admin.py do (lines 878-884, 1540-1546, 1819-1825); the function
\* has no such parameter (lines 171-178), so the call raises TypeError before
\* the body runs.  job_kind is "import" when the enqueue site saved it, ""
\* when it could not (lines 1555-1570).
ImportInvoke(with_module_id, job_kind) ==
    /\ job.kind = "none"
    /\ runs < MaxJobRuns
    /\ ~module.exists
    /\ runs' = runs + 1
    /\ flagLesson' = 0
    /\ processed' = {}
    /\ IF with_module_id
       THEN /\ outcome' = [NoOutcome EXCEPT !.kind = "import", !.result = "raised"]
            /\ jobMeta' = [stage |-> "", cancel_requested |-> FALSE, job_kind |-> job_kind]
            /\ UNCHANGED job
       ELSE /\ job' = [NoJobRun EXCEPT !.kind = "import", !.pc = "start"]
            /\ jobMeta' = [stage |-> "start", cancel_requested |-> FALSE, job_kind |-> job_kind]
            /\ outcome' = NoOutcome
    /\ UNCHANGED << module, subQuiz, questionRows, tx, nextQuizId, subQuizBefore, adminOpsLeft >>
    /\ UNCHANGED << quizRows, attemptRows >>
    /\ UNCHANGED otherThanJobs

\* lines 181-194: the checkpoints "start" and "download", before any try block
ImportBegin ==
    /\ job.kind = "import" /\ job.pc = "start"
    /\ IF CancelRequested
       THEN EndJob("raised", "canceled", "start", "", FALSE)
       ELSE Proceed("download", "download")
    /\ UNCHANGED << module, subQuiz, questionRows, tx, nextQuizId, runs, flagLesson, processed,
                    subQuizBefore, adminOpsLeft >>
    /\ UNCHANGED << quizRows, attemptRows >>
    /\ UNCHANGED otherThanJobs

\* lines 198-231: head_object and the download, then the second "download"
\* checkpoint and the first "extract" checkpoint, before any try block
ImportDownload(found) ==
    /\ job.kind = "import" /\ job.pc = "download"
    /\ IF ~found
       THEN EndJob("raised", "failed", "", "IMPORT_SOURCE_ZIP_NOT_FOUND", TRUE)
       ELSE IF CancelRequested
       THEN EndJob("raised", "canceled", "download", "", FALSE)
       ELSE Proceed("extract", "extract")
    /\ UNCHANGED << module, subQuiz, questionRows, tx, nextQuizId, runs, flagLesson, processed,
                    subQuizBefore, adminOpsLeft >>
    /\ UNCHANGED << quizRows, attemptRows >>
    /\ UNCHANGED otherThanJobs

\* lines 232-239: the extraction and the second "extract" checkpoint, before
\* any try block
ImportExtract ==
    /\ job.kind = "import" /\ job.pc = "extract"
    /\ IF CancelRequested
       THEN EndJob("raised", "canceled", "extract", "", FALSE)
       ELSE Proceed("import", "import")
    /\ UNCHANGED << module, subQuiz, questionRows, tx, nextQuizId, runs, flagLesson, processed,
                    subQuizBefore, adminOpsLeft >>
    /\ UNCHANGED << quizRows, attemptRows >>
    /\ UNCHANGED otherThanJobs

\* module_importer.import_module_from_dir with generate_questions=False: the
\* final quiz, the module (hidden), one quiz and one placeholder question per
\* lesson, and db.commit() at its end (line 684)
ImportedQuestions ==
    {[quiz |-> nextQuizId + l, tag |-> ImportPlaceholderTag, n |-> 1, run |-> runs, lesson |-> l] :
        l \in Lessons}

\* lines 251-265: inside the try block: the "import" checkpoint, then the
\* importer, which raises ValueError when the title is taken (lines 369-373)
ImportToDb(title_taken) ==
    /\ job.kind = "import" /\ job.pc = "import"
    /\ IF CancelRequested
       THEN /\ EndJob("canceled", "canceled", "import", "", FALSE)
            /\ UNCHANGED << module, subQuiz, questionRows, quizRows, nextQuizId >>
       ELSE IF title_taken
       THEN /\ EndJob("raised", "failed", "", "DUPLICATE_MODULE_TITLE", TRUE)
            /\ UNCHANGED << module, subQuiz, questionRows, quizRows, nextQuizId >>
       ELSE /\ module' = [exists |-> TRUE, active |-> FALSE, final |-> nextQuizId]
            /\ subQuiz' = [l \in Lessons |-> nextQuizId + l]
            /\ questionRows' = questionRows \cup ImportedQuestions
            /\ quizRows' = quizRows \cup (nextQuizId .. nextQuizId + MaxLessons)
            /\ nextQuizId' = nextQuizId + MaxLessons + 1
            /\ Proceed("commit", "commit")
    /\ UNCHANGED << tx, runs, flagLesson, processed, subQuizBefore, adminOpsLeft >>
    /\ UNCHANGED attemptRows
    /\ UNCHANGED otherThanJobs

\* lines 257-263 and 321-327: the importer raises something else than the
\* title conflict (an upload to object storage or a database statement
\* fails); the handler sets stage failed and _set_job_error(error=e), which
\* finds no code of its own for the error and no hint (lines 108-129)
ImportToDbError ==
    /\ job.kind = "import" /\ job.pc = "import"
    /\ ~CancelRequested
    /\ EndJob("raised", "failed", "", "IMPORT_FAILED", FALSE)
    /\ UNCHANGED << module, subQuiz, questionRows, tx, nextQuizId, runs, flagLesson, processed,
                    subQuizBefore, adminOpsLeft >>
    /\ UNCHANGED << quizRows, attemptRows >>
    /\ UNCHANGED otherThanJobs

\* lines 266-271: the "commit" checkpoint and the job's own db.commit()
ImportCommit ==
    /\ job.kind = "import" /\ job.pc = "commit"
    /\ IF CancelRequested
       THEN EndJob("canceled", "canceled", "commit", "", FALSE)
       ELSE Proceed("cleanup", "cleanup")
    /\ UNCHANGED << module, subQuiz, questionRows, tx, nextQuizId, runs, flagLesson, processed,
                    subQuizBefore, adminOpsLeft >>
    /\ UNCHANGED << quizRows, attemptRows >>
    /\ UNCHANGED otherThanJobs

\* lines 272-314: the "cleanup" checkpoint, the enqueue of the regeneration
\* job, stage "done" and the return
ImportCleanup ==
    /\ job.kind = "import" /\ job.pc = "cleanup"
    /\ IF CancelRequested
       THEN EndJob("canceled", "canceled", "cleanup", "", FALSE)
       ELSE EndJob("ok", "done", "", "", FALSE)
    /\ UNCHANGED << module, subQuiz, questionRows, tx, nextQuizId, runs, flagLesson, processed,
                    subQuizBefore, adminOpsLeft >>
    /\ UNCHANGED << quizRows, attemptRows >>
    /\ UNCHANGED otherThanJobs

\* --- regenerate_module_quizzes_job -----------------------------------------
\* Everything from line 442 on runs inside the try block; the session's writes
\* stay in tx until db.commit().

\* what the job's session sees: the committed rows and its own pending ones
SessionQuestions == questionRows \cup tx.questions

RECURSIVE SumN(_)
SumN(rows) ==
    IF rows = {} THEN 0
    ELSE LET r == CHOOSE x \in rows : TRUE IN r.n + SumN(rows \ {r})

\* lines 127-137: the lesson has a quiz without needs_regen questions and with
\* at least target_questions questions
_submodule_is_ok(l, target_questions) ==
    LET qid == tx.subQuiz[l]
        rows == {r \in SessionQuestions : r.quiz = qid}
    IN /\ qid # NoQuiz
       /\ SumN({r \in rows : NeedsRegen(r.tag)}) <= 0
       /\ SumN(rows) >= target_questions

\* rollback and close of the session
Rollback == tx' = NoTx

\* a job that writes the new rows in place of what the table held
Replaced(table, pending) == pending

\* db.commit() of a session that only added rows (db.add of new Quiz and
\* Question objects, lines 615 and 632-670): the table keeps what it held
Inserted(table, pending) == table \cup pending

\* the step after lesson l: the next lesson's checkpoint, or the commit
AfterLesson(l) == IF l < MaxLessons /\ ~job.single THEN [job EXCEPT !.pc = "lesson", !.lesson = l + 1]
                  ELSE [job EXCEPT !.pc = "commit"]

\* the worker calls the job; only_missing and force_ai are its keyword
\* arguments (lines 432-441)
RegenInvoke(only_missing, force_ai) ==
    /\ job.kind = "none"
    /\ runs < MaxJobRuns
    /\ runs' = runs + 1
    /\ job' = [NoJobRun EXCEPT !.kind = "regen", !.pc = "load",
                               !.only_missing = only_missing, !.force_ai = force_ai]
    /\ jobMeta' = [stage |-> "start", cancel_requested |-> FALSE, job_kind |-> "regen"]
    /\ outcome' = NoOutcome
    /\ tx' = [open |-> TRUE, subQuiz |-> subQuiz, quizzes |-> {}, questions |-> {}]
    /\ flagLesson' = 0
    /\ processed' = {}
    /\ subQuizBefore' = subQuiz
    /\ UNCHANGED << module, subQuiz, questionRows, nextQuizId, adminOpsLeft >>
    /\ UNCHANGED << quizRows, attemptRows >>
    /\ UNCHANGED otherThanJobs

\* regenerate_submodule_quiz_job, lines 140-148: the worker calls the job for
\* one lesson; force and force_ai are its keyword arguments
RegenSubmoduleInvoke(l, force, force_ai) ==
    /\ job.kind = "none"
    /\ runs < MaxJobRuns
    /\ runs' = runs + 1
    /\ job' = [NoJobRun EXCEPT !.kind = "regen", !.pc = "load1", !.lesson = l, !.single = TRUE,
                               !.only_missing = ~force, !.force_ai = force_ai]
    /\ jobMeta' = [stage |-> "start", cancel_requested |-> FALSE, job_kind |-> "regen"]
    /\ outcome' = NoOutcome
    /\ tx' = [open |-> TRUE, subQuiz |-> subQuiz, quizzes |-> {}, questions |-> {}]
    /\ flagLesson' = 0
    /\ processed' = {}
    /\ subQuizBefore' = subQuiz
    /\ UNCHANGED << module, subQuiz, questionRows, nextQuizId, adminOpsLeft >>
    /\ UNCHANGED << quizRows, attemptRows >>
    /\ UNCHANGED otherThanJobs

\* regenerate_submodule_quiz_job, lines 149-232: the lesson or its module is
\* not found (failure, the handler's default code replaces the one set at the
\* raise); without force a lesson that is in order is left alone; otherwise
\* the loop of the module job runs over this one lesson
RegenSubmoduleLoad ==
    /\ job.kind = "regen" /\ job.pc = "load1"
    /\ IF ~module.exists
       THEN /\ EndJob("raised", "failed", "", RegenFailureCode(_set_job_error("MODULE_NOT_FOUND")), TRUE)
            /\ Rollback
       ELSE IF job.only_missing /\ _submodule_is_ok(job.lesson, TargetQuestions)
       THEN /\ EndJob("ok", "done", "", "", FALSE)
            /\ Rollback
       ELSE /\ job' = [job EXCEPT !.pc = "lesson", !.only_missing = FALSE]
            /\ UNCHANGED << jobMeta, outcome, tx >>
    /\ UNCHANGED << module, subQuiz, questionRows, nextQuizId, runs, flagLesson, processed,
                    subQuizBefore, adminOpsLeft >>
    /\ UNCHANGED << quizRows, attemptRows >>
    /\ UNCHANGED otherThanJobs

\* lines 442-471: load the module and its lessons; the "load" checkpoint.
\* The failure handler (lines 721-728) overwrites the error code set at the
\* raise site with the default REGEN_FAILED.
RegenLoad ==
    /\ job.kind = "regen" /\ job.pc = "load"
    /\ IF ~module.exists
       THEN /\ EndJob("raised", "failed", "", RegenFailureCode(_set_job_error("MODULE_NOT_FOUND")), TRUE)
            /\ Rollback
       ELSE IF CancelRequested
       THEN /\ EndJob("canceled", "canceled", "load", "", FALSE)
            /\ Rollback
       ELSE /\ job' = [job EXCEPT !.pc = "lesson", !.lesson = 1]
            /\ jobMeta' = [jobMeta EXCEPT !.stage = "load"]
            /\ UNCHANGED << outcome, tx >>
    /\ UNCHANGED << module, subQuiz, questionRows, nextQuizId, runs, flagLesson, processed,
                    subQuizBefore, adminOpsLeft >>
    /\ UNCHANGED << quizRows, attemptRows >>
    /\ UNCHANGED otherThanJobs

\* lines 496-507: the "lesson" checkpoint at the head of each iteration, then
\* the only_missing skip or the start of the AI generation
RegenLesson ==
    /\ job.kind = "regen" /\ job.pc = "lesson"
    /\ IF CancelRequested
       THEN /\ EndJob("canceled", "canceled", "lesson", "", FALSE)
            /\ Rollback
            /\ UNCHANGED processed
       ELSE /\ processed' = processed \cup {job.lesson}
            /\ IF job.only_missing /\ _submodule_is_ok(job.lesson, TargetQuestions)
               THEN /\ job' = AfterLesson(job.lesson)
                    /\ jobMeta' = [jobMeta EXCEPT !.stage = "skip"]
               ELSE /\ job' = [job EXCEPT !.pc = "ai"]
                    /\ jobMeta' = [jobMeta EXCEPT !.stage = "ai"]
            /\ UNCHANGED << outcome, tx >>
    /\ UNCHANGED << module, subQuiz, questionRows, nextQuizId, runs, flagLesson, subQuizBefore,
                    adminOpsLeft >>
    /\ UNCHANGED << quizRows, attemptRows >>
    /\ UNCHANGED otherThanJobs

\* lines 509-547: the AI generation returns questions (ai_ok) or nothing,
\* then the "ai" checkpoint
RegenAi(ai_ok) ==
    /\ job.kind = "regen" /\ job.pc = "ai"
    /\ IF CancelRequested
       THEN /\ EndJob("canceled", "canceled", "ai", "", FALSE)
            /\ Rollback
       ELSE /\ job' = [job EXCEPT !.pc = "replace", !.ai_ok = ai_ok]
            /\ UNCHANGED << jobMeta, outcome, tx >>
    /\ UNCHANGED << module, subQuiz, questionRows, nextQuizId, runs, flagLesson, processed,
                    subQuizBefore, adminOpsLeft >>
    /\ UNCHANGED << quizRows, attemptRows >>
    /\ UNCHANGED otherThanJobs

\* a job without the heuristic generator: the placeholder question instead
BatchWithoutHeuristic(quiz_id, l, ai_ok, used_heuristic) ==
    IF ai_ok THEN [quiz |-> quiz_id, tag |-> RegenAiTag, n |-> TargetQuestions, run |-> runs, lesson |-> l]
    ELSE [quiz |-> quiz_id, tag |-> RegenFallbackTag(TRUE), n |-> 1, run |-> runs, lesson |-> l]

\* lines 583-588 (and 291-296): whether `generated` is non-empty.
\* generate_quiz_questions_heuristic returns max(1, target) questions for
\* every title and text (services/quiz_generation.py, 136-163).
HeuristicGenerated == {TRUE}

\* lines 614-672: the batch written to the lesson's new quiz
RegenBatch(quiz_id, l, ai_ok, used_heuristic) ==
    IF ai_ok THEN [quiz |-> quiz_id, tag |-> RegenAiTag, n |-> TargetQuestions, run |-> runs, lesson |-> l]
    ELSE IF used_heuristic
    THEN [quiz |-> quiz_id, tag |-> RegenHeuristicTag, n |-> TargetQuestions, run |-> runs, lesson |-> l]
    ELSE [quiz |-> quiz_id, tag |-> RegenFallbackTag(TRUE), n |-> 1, run |-> runs, lesson |-> l]

\* lines 550-674: without AI questions, force_ai fails the job and otherwise
\* the heuristic generator is tried (heuristic_ok: it produced questions);
\* then the "replace" checkpoint, a new quiz for the lesson, the lesson's
\* pointer moved to it and the questions written, all in the session
RegenReplace(heuristic_ok) ==
    /\ job.kind = "regen" /\ job.pc = "replace"
    /\ IF ~job.ai_ok /\ job.force_ai
       THEN /\ EndJob("raised", "failed", "", RegenFailureCode(_set_job_error("AI_FORMAT_INVALID")), TRUE)
            /\ Rollback
            /\ UNCHANGED nextQuizId
       ELSE IF CancelRequested
       THEN /\ EndJob("canceled", "canceled", "replace", "", FALSE)
            /\ Rollback
            /\ UNCHANGED nextQuizId
       ELSE /\ tx' = [tx EXCEPT !.subQuiz[job.lesson] = nextQuizId,
                                !.quizzes = @ \cup {nextQuizId},
                                !.questions = @ \cup {RegenBatch(nextQuizId, job.lesson, job.ai_ok,
                                                                 ~job.ai_ok /\ heuristic_ok)}]
            /\ nextQuizId' = nextQuizId + 1
            /\ job' = AfterLesson(job.lesson)
            /\ jobMeta' = [jobMeta EXCEPT !.stage = "replace"]
            /\ UNCHANGED outcome
    /\ UNCHANGED << module, subQuiz, questionRows, runs, flagLesson, processed, subQuizBefore,
                    adminOpsLeft >>
    /\ UNCHANGED << quizRows, attemptRows >>
    /\ UNCHANGED otherThanJobs

\* lines 710-714: the "commit" checkpoint, db.commit(), stage "done"
RegenCommit ==
    /\ job.kind = "regen" /\ job.pc = "commit"
    /\ IF CancelRequested
       THEN /\ EndJob("canceled", "canceled", "commit", "", FALSE)
            /\ Rollback
            /\ UNCHANGED << subQuiz, questionRows, quizRows >>
       ELSE /\ subQuiz' = tx.subQuiz
            /\ questionRows' = Inserted(questionRows, tx.questions)
            /\ quizRows' = Inserted(quizRows, tx.quizzes)
            /\ tx' = NoTx
            /\ EndJob("ok", "done", "", "", FALSE)
    /\ UNCHANGED << module, nextQuizId, runs, flagLesson, processed, subQuizBefore, adminOpsLeft >>
    /\ UNCHANGED attemptRows
    /\ UNCHANGED otherThanJobs

\* --- admin endpoints --------------------------------------------------------
\* cancel_job, lines 1942-2018: refused for a job whose job_kind is set and is
\* not "regen"; otherwise the flag is written to the job's meta
CancelJob ==
    /\ job.kind # "none"
    /\ ~jobMeta.cancel_requested
    /\ jobMeta.job_kind \in {"", "regen"}
    /\ jobMeta' = [jobMeta EXCEPT !.cancel_requested = TRUE]
    /\ flagLesson' = IF job.kind = "regen" /\ job.pc \in {"ai", "replace"} THEN job.lesson ELSE 0
    /\ UNCHANGED << module, subQuiz, questionRows, tx, nextQuizId, job, outcome, runs, processed,
                    subQuizBefore, adminOpsLeft >>
    /\ UNCHANGED << quizRows, attemptRows >>
    /\ UNCHANGED otherThanJobs

\* the quizzes learners of the module are served: the lessons' quizzes and the final quiz
ActiveQuizIds == ({subQuiz[l] : l \in Lessons} \cup {module.final}) \ {NoQuiz}

\* set_module_visibility, lines 2272-2324: a module is shown only when none
\* of its active quizzes holds a needs_regen question
SetModuleVisibility(target) ==
    /\ adminOpsLeft > 0
    /\ module.exists
    /\ module.active # target
    /\ LET needs == SumN({r \in questionRows : r.quiz \in ActiveQuizIds /\ NeedsRegen(r.tag)})
       IN ~(target /\ needs > 0)
    /\ module' = [module EXCEPT !.active = target]
    /\ adminOpsLeft' = adminOpsLeft - 1
    /\ UNCHANGED << subQuiz, questionRows, tx, nextQuizId, job, jobMeta, outcome, runs, flagLesson,
                    processed, subQuizBefore >>
    /\ UNCHANGED << quizRows, attemptRows >>
    /\ UNCHANGED otherThanJobs

\* create_question, lines 2653-2694: the row is written with the tag as sent
CreateQuestion(quiz_id, concept_tag) ==
    /\ adminOpsLeft > 0
    /\ quiz_id \in ActiveQuizIds
    /\ LET row == [quiz |-> quiz_id, tag |-> concept_tag, n |-> 1, run |-> 0, lesson |-> 0]
       IN /\ row \notin questionRows
          /\ questionRows' = questionRows \cup {row}
    /\ adminOpsLeft' = adminOpsLeft - 1
    /\ UNCHANGED << module, subQuiz, tx, nextQuizId, job, jobMeta, outcome, runs, flagLesson,
                    processed, subQuizBefore >>
    /\ UNCHANGED << quizRows, attemptRows >>
    /\ UNCHANGED otherThanJobs

\* update_question, lines 2769-2866: one question of the batch gets the tag
\* that was sent (a tag that is not sent leaves it as it is)
UpdateQuestion(row, concept_tag) ==
    /\ adminOpsLeft > 0
    /\ row \in questionRows
    /\ concept_tag # << >>
    /\ concept_tag # row.tag
    /\ LET changed == [row EXCEPT !.tag = concept_tag, !.n = 1]
           rest == IF row.n > 1 THEN {[row EXCEPT !.n = row.n - 1]} ELSE {}
       IN questionRows' = ((questionRows \ {row}) \cup rest) \cup {changed}
    /\ adminOpsLeft' = adminOpsLeft - 1
    /\ UNCHANGED << module, subQuiz, tx, nextQuizId, job, jobMeta, outcome, runs, flagLesson,
                    processed, subQuizBefore >>
    /\ UNCHANGED << quizRows, attemptRows >>
    /\ UNCHANGED otherThanJobs

\* --- learners ---------------------------------------------------------------
\* the identity of a Question row (its content may be edited by an admin)
QuestionKey(r) == [quiz |-> r.quiz, run |-> r.run, lesson |-> r.lesson]

\* routers/quizzes.py submit_quiz, lines 486-503: a learner's attempt at the
\* active quiz of lesson l is stored: a QuizAttempt row holding the quiz id
\* and QuizAttemptAnswer rows holding the ids of the quiz's questions
RecordAttempt(l) ==
    /\ Cardinality(attemptRows) < MaxQuizAttempts
    /\ module.exists
    /\ subQuiz[l] # NoQuiz
    /\ attemptRows' = attemptRows \cup
           {[quiz |-> subQuiz[l],
             answers |-> {QuestionKey(r) : r \in {x \in questionRows : x.quiz = subQuiz[l]}}]}
    /\ UNCHANGED << module, subQuiz, questionRows, quizRows, tx, nextQuizId, job, jobMeta, outcome,
                    runs, flagLesson, processed, subQuizBefore, adminOpsLeft >>
    /\ UNCHANGED otherThanJobs

\* ========================================================================
\* Part D.  The validation of AI output and the provider orchestrator
\*          (services/llm_handler.py)
\* ========================================================================
\* A text is a sequence of characters; a prompt is the sequence of its lines
\* (what str.splitlines returns).  The character U+1E9A is written "U+1E9A";
\* str.upper turns it into the two characters "A" and U+02BE.
LowerCase == << "a", "b", "c", "d", "e", "f", "g", "h" >>

UpperCase == << "A", "B", "C", "D", "E", "F", "G", "H" >>

IndexIn(c, s) == IF \E i \in 1..Len(s) : s[i] = c THEN CHOOSE i \in 1..Len(s) : s[i] = c ELSE 0

UpperChar(c) ==
    IF c = "U+1E9A" THEN << "A", "U+02BE" >>
    ELSE IF IndexIn(c, LowerCase) > 0 THEN << UpperCase[IndexIn(c, LowerCase)] >>
    ELSE << c >>

LowerChar(c) == IF IndexIn(c, UpperCase) > 0 THEN << LowerCase[IndexIn(c, UpperCase)] >> ELSE << c >>

RECURSIVE UpperText(_)
UpperText(s) == IF s = << >> THEN << >> ELSE UpperChar(Head(s)) \o UpperText(Tail(s))

RECURSIVE LowerText(_)
LowerText(s) == IF s = << >> THEN << >> ELSE LowerChar(Head(s)) \o LowerText(Tail(s))

RECURSIVE LStrip(_)
LStrip(s) == IF s # << >> /\ Head(s) = " " THEN LStrip(Tail(s)) ELSE s

RECURSIVE RStrip(_)
RStrip(s) == IF s # << >> /\ s[Len(s)] = " " THEN RStrip(SubSeq(s, 1, Len(s) - 1)) ELSE s

StripSpaces(s) == RStrip(LStrip(s))

\* s[a:] and s[:b] of Python, for 0 <= a and 0 <= b
From(s, a) == SubSeq(s, a + 1, Len(s))

UpTo(s, b) == SubSeq(s, 1, Min(b, Len(s)))

RECURSIVE Squeeze(_)
Squeeze(s) ==
    IF Len(s) < 2 THEN s
    ELSE IF s[1] = " " /\ s[2] = " " THEN Squeeze(Tail(s))
    ELSE << Head(s) >> \o Squeeze(Tail(s))

_clean(s) == StripSpaces(Squeeze(StripSpaces(s)))

RECURSIVE Split(_, _)
Split(s, sep) ==
    IF IndexIn(sep, s) = 0 THEN << s >>
    ELSE << SubSeq(s, 1, IndexIn(sep, s) - 1) >> \o Split(From(s, IndexIn(sep, s)), sep)

RECURSIVE JoinLines(_)
JoinLines(lines) ==
    IF lines = << >> THEN << >>
    ELSE IF Len(lines) = 1 THEN lines[1]
    ELSE lines[1] \o << " " >> \o JoinLines(Tail(lines))

ABCD == {"A", "B", "C", "D"}

NoOpts == [k \in ABCD |-> << >>]

\* the key and the value one line contributes, key "" when it is skipped
OptionOfLine(line) ==
    LET ln == StripSpaces(line)
        head2 == UpperText(UpTo(ln, 2))
        head3 == UpperText(UpTo(ln, 3))
    IN  IF Len(ln) < 3 THEN [key |-> "", val |-> << >>]
        ELSE IF head2 \in {<< k, ")" >> : k \in ABCD}
            THEN [key |-> head2[1], val |-> StripSpaces(From(ln, 2))]
        ELSE IF head2[1] \in ABCD /\ head2[2] \in {".", ":"}
            THEN [key |-> head2[1], val |-> StripSpaces(From(ln, 2))]
        ELSE IF head3[1] \in ABCD /\ head3[2] = " " /\ head3[3] \in {"-", "U+2014"}
            THEN [key |-> head3[1], val |-> StripSpaces(From(ln, 3))]
        ELSE [key |-> "", val |-> << >>]

RECURSIVE CollectOptions(_, _)
CollectOptions(lines, opts) ==
    IF lines = << >> THEN opts
    ELSE LET o == OptionOfLine(Head(lines))
         IN  CollectOptions(Tail(lines),
                            IF o.key # "" /\ o.val # << >> THEN [opts EXCEPT ![o.key] = o.val] ELSE opts)

\* the four option texts in the order A, B, C, D, or << >> for None
_extract_abcd_options(prompt) ==
    LET opts == CollectOptions(prompt, NoOpts)
    IN  IF \A k \in ABCD : opts[k] # << >>
        THEN << opts["A"], opts["B"], opts["C"], opts["D"] >>
        ELSE << >>

_norm_correct_answer(raw) ==
    LET s == UpperText(_clean(raw))
    IN  IF s = << >> THEN ""
        ELSE IF s[1] \in ABCD THEN s[1]
        ELSE ""

RawType(q) == IF q.type = "" THEN "single" ELSE q.type

NormPrompt(q) == LowerText(_clean(JoinLines(q.prompt)))

NormOpts(q) == LET opts == _extract_abcd_options(q.prompt) IN [i \in 1..Len(opts) |-> LowerText(_clean(opts[i]))]

MultiParts(q) ==
    LET parts == Split(_clean(q.correct_answer), ",")
    IN  [i \in {j \in 1..Len(parts) : StripSpaces(parts[j]) # << >>} |-> UpperText(StripSpaces(parts[i]))]

AnswerAccepted(q) ==
    IF RawType(q) = "multi"
    THEN /\ Cardinality(DOMAIN MultiParts(q)) >= 2
         /\ \A i \in DOMAIN MultiParts(q) : MultiParts(q)[i] \in {<< k >> : k \in ABCD}
    ELSE _norm_correct_answer(_clean(q.correct_answer)) \in ABCD

\* the option count check left out
OptionCountIgnored(norm_opts) == TRUE

OptionCountOk(norm_opts) == Cardinality({o \in Range(norm_opts) : o # << >>}) = 4

_is_valid_question(q, seen) ==
    /\ RawType(q) \in {"single", "multi", "case"}
    /\ Len(_clean(JoinLines(q.prompt))) >= 18
    /\ NormPrompt(q) \notin seen
    /\ _extract_abcd_options(q.prompt) # << >>
    /\ OptionCountOk(NormOpts(q))
    /\ \A o \in Range(NormOpts(q)) : Len(o) >= 2
    /\ AnswerAccepted(q)
    /\ Len(_clean(q.explanation)) >= 6

SeenAfter(q, seen) == IF _is_valid_question(q, seen) THEN seen \cup {NormPrompt(q)} ELSE seen

RECURSIVE FilterFrom(_, _, _, _)
FilterFrom(items, want, seen, out) ==
    IF items = << >> THEN out
    ELSE LET q == Head(items)
             out2 == IF _is_valid_question(q, seen) THEN Append(out, q) ELSE out
         IN  IF Len(out2) >= want THEN out2
             ELSE FilterFrom(Tail(items), want, SeenAfter(q, seen), out2)

_filter_questions(items, want) == FilterFrom(items, want, {}, << >>)

FirstLetters(items) ==
    LET idx == {i \in 1..Len(items) : _clean(items[i].correct_answer) # << >>}
    IN  [i \in idx |-> UpperText(UpTo(_clean(items[i].correct_answer), 1))]

\* the degeneracy check left out
NeverDegenerate(items) == FALSE

\* three of the answers begin with the same letter
ThreeShare(items) ==
    \E k \in DOMAIN FirstLetters(items) :
        Cardinality({m \in DOMAIN FirstLetters(items) : FirstLetters(items)[m] = FirstLetters(items)[k]}) >= 3

\* the number of different first letters of the answers
LetterCount(items) == Cardinality({FirstLetters(items)[i] : i \in DOMAIN FirstLetters(items)})

\* a check that rejects a batch as soon as three answers share a letter
ThreeShareDegenerate(items) == ThreeShare(items)

_is_degenerate(items) ==
    /\ Len(items) >= 3
    /\ Cardinality(DOMAIN FirstLetters(items)) >= 3
    /\ Cardinality({FirstLetters(items)[i] : i \in DOMAIN FirstLetters(items)}) <= 1

\* --- the candidates the validator is run on ------------------------------
Stem == << "c", "a", "f", "e", " ", "b", "a", "d", "g", "e", "?" >>

OptionValues ==
    [A |-> {<< "a", "b" >>, << "A", "B", " " >>},
     B |-> {<< "a", "b" >>, << "c", " ", " ", "d" >>},
     C |-> {<< "e", "f" >>, << "e" >>},
     D |-> {<< "g", "h" >>, << " " >>}]

\* the four option lines, one per accepted head format
Layouts ==
    {<< << "A", ")" >> \o a, << "b", "." >> \o << " " >> \o b,
        << " ", "C", ":" >> \o c, << "d", " ", "-" >> \o d >> :
        a \in OptionValues.A, b \in OptionValues.B, c \in OptionValues.C, d \in OptionValues.D}

Without(s, i) == SubSeq(s, 1, i - 1) \o SubSeq(s, i + 1, Len(s))

\* a layout as it is, with one line missing, with an E line, with the A line given twice
Variants(lay) ==
    {lay} \cup {Without(lay, i) : i \in 1..4}
          \cup {lay \o << << "E", ")", "g", "h" >> >>}
          \cup {<< << "a", ")", "h", "h" >> >> \o lay}

Prompts == {<< Stem >> \o v : v \in UNION {Variants(lay) : lay \in Layouts}}

Answers ==
    {<< "A" >>, << " ", "b", ")" >>, << "E" >>, << >>, << "A", ",", "C" >>,
     << "a", "c", "e" >>, << "U+1E9A" >>, << "," , "D" >>}

Explanations == {<< "b", "e", "c", "a", "u", "s", "e" >>, << "a", " ", " ", " ", " ", "b" >>}

Types == {"single", "multi", ""}

Candidates == [type : Types, prompt : Prompts, correct_answer : Answers, explanation : Explanations]

ValidatorIdle ==
    /\ cand = [type |-> "", prompt |-> << >>, correct_answer |-> << >>, explanation |-> << >>]
    /\ seen_prompts = {}
    /\ accepted = << >>
    /\ validated = 0

\* _filter_questions reaches the candidate
Validate ==
    /\ validated = 0
    /\ accepted' = IF _is_valid_question(cand, seen_prompts) THEN Append(accepted, cand) ELSE accepted
    /\ seen_prompts' = SeenAfter(cand, seen_prompts)
    /\ validated' = 1
    /\ UNCHANGED cand
    /\ UNCHANGED otherThanValidator

\* the provider's list holds the same candidate once more
ValidateAgain ==
    /\ validated = 1
    /\ accepted' = IF _is_valid_question(cand, seen_prompts) THEN Append(accepted, cand) ELSE accepted
    /\ seen_prompts' = SeenAfter(cand, seen_prompts)
    /\ validated' = 2
    /\ UNCHANGED cand
    /\ UNCHANGED otherThanValidator

\* ------------------------------------------------------------------------
\* The OpenRouter client's own filter (services/openrouter.py)
\* ------------------------------------------------------------------------
RECURSIVE Contains(_, _)
Contains(s, sub) ==
    IF Len(s) < Len(sub) THEN FALSE
    ELSE IF SubSeq(s, 1, Len(sub)) = sub THEN TRUE
    ELSE Contains(Tail(s), sub)

\* "A)" in q.prompt, the prompt being its lines joined by line breaks
HasHead(prompt, k) == \E i \in 1..Len(prompt) : Contains(prompt[i], << k, ")" >>)

StrictOptionOfLine(line) ==
    LET ln == StripSpaces(line)
        head == UpperText(UpTo(ln, 2))
    IN  IF Len(ln) >= 3 /\ head \in {<< k, ")" >> : k \in ABCD}
        THEN [key |-> head[1], val |-> StripSpaces(From(ln, 2))]
        ELSE [key |-> "", val |-> << >>]

RECURSIVE StrictCollect(_, _)
StrictCollect(lines, opts) ==
    IF lines = << >> THEN opts
    ELSE LET o == StrictOptionOfLine(Head(lines))
         IN  StrictCollect(Tail(lines),
                           IF o.key # "" /\ o.val # << >> THEN [opts EXCEPT ![o.key] = o.val] ELSE opts)

StrictOptions(prompt) ==
    LET opts == StrictCollect(prompt, NoOpts)
    IN  IF \A k \in ABCD : opts[k] # << >>
        THEN << opts["A"], opts["B"], opts["C"], opts["D"] >>
        ELSE << >>

_is_good_question(q, seen) ==
    LET prompt == StripSpaces(JoinLines(q.prompt))
        opts == StrictOptions(q.prompt)
        norm_opts == [i \in 1..Len(opts) |-> LowerText(_clean(opts[i]))]
    IN  /\ Len(prompt) >= 25
        /\ LowerText(_clean(prompt)) \notin seen
        /\ opts # << >>
        /\ Cardinality({o \in Range(norm_opts) : o # << >>}) = 4
        /\ \A o \in Range(norm_opts) : Len(o) >= 2
        /\ UpTo(UpperText(StripSpaces(q.correct_answer)), 1) \in {<< k >> : k \in ABCD}
        /\ Len(StripSpaces(q.explanation)) >= 10

\* ca = ca_raw[:1].upper()
FirstUpper(ca_raw) == UpperText(UpTo(StripSpaces(ca_raw), 1))

RECURSIVE OpenRouterKeep(_, _, _)
OpenRouterKeep(items, seen, out) ==
    IF items = << >> THEN out
    ELSE LET q == Head(items)
             n == [q EXCEPT !.correct_answer = FirstUpper(q.correct_answer)]
             keep == /\ q.type = "single"
                     /\ q.prompt # << >>
                     /\ \A k \in ABCD : HasHead(q.prompt, k)
                     /\ FirstUpper(q.correct_answer) \in {<< k >> : k \in ABCD}
                     /\ _is_good_question(n, seen)
         IN  OpenRouterKeep(Tail(items),
                            IF keep THEN seen \cup {LowerText(_clean(JoinLines(q.prompt)))} ELSE seen,
                            IF keep THEN Append(out, n) ELSE out)

\* the list generate_quiz_questions_openrouter returns for a parsed response
OpenRouterOut(questions, n_questions) == OpenRouterKeep(UpTo(questions, n_questions), {}, << >>)

\* --- the responses the provider is given in the model --------------------
OptionLines == << << "A", ")", " ", "a", "b" >>, << "B", ")", " ", "c", "d" >>,
                  << "C", ")", " ", "e", "f" >>, << "D", ")", " ", "g", "h" >> >>

StemOf(i) == << "c", "a", "f", "e", " ", "b", "a", "d", "g", "e", " " >> \o << UpperCase[i], "?" >>

PromptOf(i) == << StemOf(i) >> \o OptionLines

\* the B line written "b." : accepted by the validator, not by the client
DotPrompt == << StemOf(4) >> \o [OptionLines EXCEPT ![2] = << "b", ".", " ", "c", "d" >>]

LongExplanation == << "b", "e", "c", "a", "u", "s", "e", " ", "a", "b", "c" >>

Item(p, a) == [type |-> "single", prompt |-> p, correct_answer |-> a, explanation |-> LongExplanation]

MultiItem == [Item(PromptOf(1), << "A", ",", "C" >>) EXCEPT !.type = "multi"]

WantQuestions == 3

\* the parsed responses of the model: nothing, three answers A, three
\* different answers, fewer than asked, a prompt given twice, an answer
\* U+1E9A, items the client drops, more items than asked
ParsedResponses ==
    {<< >>,
     << Item(PromptOf(1), << "A" >>), Item(PromptOf(2), << "a", ")" >>), Item(PromptOf(3), << "A" >>) >>,
     << Item(PromptOf(1), << "A" >>), Item(PromptOf(2), << "b", ")" >>), Item(PromptOf(3), << "C" >>) >>,
     << Item(PromptOf(2), << "B" >>), Item(PromptOf(3), << "D" >>) >>,
     << Item(PromptOf(1), << "A" >>) >>,
     << Item(PromptOf(1), << "A" >>), Item(PromptOf(1), << "B" >>), Item(PromptOf(3), << "C" >>) >>,
     << Item(PromptOf(1), << "A" >>), Item(PromptOf(2), << "A" >>), Item(PromptOf(3), << "U+1E9A" >>) >>,
     << MultiItem, Item(DotPrompt, << "B" >>), Item(PromptOf(3), << "C" >>) >>,
     << Item(PromptOf(3), << "C" >>), Item(PromptOf(2), << "C" >>), Item(PromptOf(1), << "C" >>),
        Item(PromptOf(4), << "D" >>) >>}

\* ------------------------------------------------------------------------
\* generate_quiz_questions_ai.  Time is counted in whole seconds from
\* t_start; None is written NoValue.
\* ------------------------------------------------------------------------
NoValue == -1

\* settings.openrouter_timeout_read
PerAttempt == 15

MinRead == 3

\* line 197: cost = max(1.0, per_attempt_s + 1.0)
Overhead == 1

\* line 251: float(rem_call) - 1.0
SafetyMargin == 1

Budgets == {NoValue, 0, 2, 16, 50}

\* n_questions of the calls
RequestedCounts == {WantQuestions, WantQuestions + 1}

\* the value a dict holds under a key that was never set
Unset == "unset"

\* debug_out.setdefault
KeptAsIs(old, v) == old

SetDefault(old, v) == IF old = NoValue THEN v ELSE old

_remaining_s(budget_s, t) == IF budget_s = NoValue THEN NoValue ELSE Max(0, budget_s - t)

\* an orchestrator that never looks at the budget
BudgetNeverChecked(budget_s, t) == FALSE

_budget_exhausted(budget_s, t) == _remaining_s(budget_s, t) # NoValue /\ _remaining_s(budget_s, t) <= 0

\* a cap that takes the retries as they are
CapIgnoresBudget(rem_s, per_attempt_s, max_tries_in) == max_tries_in

_cap_tries_by_budget(rem_s, per_attempt_s, max_tries_in) ==
    IF rem_s = NoValue THEN max_tries_in
    ELSE Max(1, Min(max_tries_in, (rem_s \div Max(1, per_attempt_s + Overhead)) + 1))

\* a read timeout that is always the configured one
ReadAlwaysConfigured(rem_call) == IF rem_call = NoValue THEN NoValue ELSE PerAttempt

\* lines 247-253
DynRead(rem_call) ==
    IF rem_call = NoValue THEN NoValue ELSE Max(MinRead, Min(PerAttempt, rem_call - SafetyMargin))

\* the read timeout the client arms
ReadTimeout(dyn_read) == IF dyn_read = NoValue THEN PerAttempt ELSE dyn_read

\* time.sleep(max(0.1, backoff_seconds * attempt)), backoff 0.8 or 0.9, rounded up
Backoff(attempt) == attempt

\* what one call of the client meets: a parsed response, or a failure with
\* the error the client leaves in its debug dict.  The client never stores "raw".
ClientReplies ==
    {[questions |-> r, error |-> "", raw |-> "", content |-> TRUE, timed_out |-> FALSE] : r \in ParsedResponses}
    \cup {[questions |-> << >>, error |-> e, raw |-> "", content |-> TRUE, timed_out |-> FALSE] :
            e \in {"invalid_json", "schema_validation_failed"}}
    \cup {[questions |-> << >>, error |-> "missing_token", raw |-> "", content |-> FALSE, timed_out |-> FALSE]}
    \cup {[questions |-> << >>, error |-> "request_failed:ReadTimeout", raw |-> "", content |-> FALSE,
            timed_out |-> TRUE]}

\* a client whose request handler lets the read timeout through
TimeoutEscapes(reply) == ~reply.timed_out

\* openrouter.py lines 288-316 (request: except Exception ... return []),
\* 324-326 (invalid_json) and 337-411 (schema_validation_failed): every
\* failure of a call ends in the client's own `return []`
ClientCatches(reply) == TRUE

\* the exception that leaves the client
ClientRaised(reply) == reply.error # "" /\ ~ClientCatches(reply)

\* the list the client returns and the error in its debug dict
ClientOut(reply) == IF reply.error # "" THEN << >> ELSE OpenRouterOut(reply.questions, orch.want)

ClientError(reply, out) ==
    IF reply.error # "" THEN reply.error
    ELSE IF out = << >> THEN "no_valid_questions"
    ELSE ""

\* an error of no provider, and the errors list before anything was set
PlainError(e) == << "", e >>

NoDebug == [provider |-> Unset, provider_error |-> << PlainError(Unset) >>, openrouter_attempts |-> NoValue,
            error |-> Unset]

NoCall ==
    [pc |-> "idle", want |-> 0, min_q |-> 0, max_tries |-> 0, budget_s |-> NoValue, enabled |-> FALSE,
     has_debug |-> FALSE, ok_or |-> FALSE, cap_tries |-> 0, attempt |-> 0, out |-> << >>,
     best_valid |-> << >>, last_err |-> "", errors |-> << >>, rem |-> NoValue]

AiIdle ==
    /\ orch = NoCall
    /\ elapsed = 0
    /\ debug_out = NoDebug
    /\ returned = << >>
    /\ aiLog = << >>

\* the call: want, min_q and max_tries as lines 200-203 compute them
AiCall(n_questions, min_questions, retries, time_budget_seconds, enabled, has_debug) ==
    LET want == n_questions
        min_q0 == IF min_questions # NoValue THEN min_questions ELSE want
    IN  [NoCall EXCEPT !.pc = "provider", !.want = want,
                       !.min_q = Max(1, Min(min_q0, IF want > 0 THEN want ELSE min_q0)),
                       !.max_tries = Max(1, Min(IF retries = 0 THEN 1 ELSE retries, 8)),
                       !.budget_s = time_budget_seconds, !.enabled = enabled, !.has_debug = has_debug]

SetDebug(d, key, value) == IF orch.has_debug THEN [d EXCEPT ![key] = value] ELSE d

\* "openrouter:" + the error
ProviderError(e) == << "openrouter", IF e = "" THEN "empty" ELSE e >>

JoinErrors(errors) == IF errors = << >> THEN << PlainError("no_provider") >> ELSE errors

\* lines 449-453: no provider gave enough
ReturnEmpty(errors) ==
    /\ returned' = << >>
    /\ debug_out' = [SetDebug(SetDebug(debug_out, "provider", "None"), "provider_error", JoinErrors(errors))
                        EXCEPT !.error = IF orch.has_debug /\ debug_out.error = Unset THEN "all_failed" ELSE @]

\* lines 205-241: the provider is entered, the health check answers ok_or
EnterProvider(ok_or, d) ==
    /\ orch.pc = "provider"
    /\ elapsed' = elapsed + d
    /\ aiLog' = aiLog
    /\ IF _budget_exhausted(orch.budget_s, elapsed)
       THEN /\ orch' = [orch EXCEPT !.pc = "done", !.errors = << PlainError("budget_exhausted") >>]
            /\ ReturnEmpty(<< PlainError("budget_exhausted") >>)
       ELSE IF ~orch.enabled
       THEN /\ orch' = [orch EXCEPT !.pc = "done"]
            /\ ReturnEmpty(<< >>)
       ELSE /\ orch' = [orch EXCEPT !.pc = "attempt", !.ok_or = ok_or, !.attempt = 1,
                                    !.rem = _remaining_s(orch.budget_s, elapsed + d),
                                    !.cap_tries = _cap_tries_by_budget(_remaining_s(orch.budget_s, elapsed + d),
                                                                       PerAttempt, orch.max_tries)]
            /\ UNCHANGED << debug_out, returned >>
    /\ UNCHANGED otherThanAi

\* lines 247-253: the read timeout of the call about to be made
CallRead == DynRead(_remaining_s(orch.budget_s, elapsed))

Took(reply) == IF reply.timed_out THEN ReadTimeout(CallRead) ELSE 1

\* lines 265-268
Degenerate(filtered) == filtered # << >> /\ _is_degenerate(filtered)

\* lines 272-286: the repair call is reached only with local_debug["raw"],
\* a key the client never writes, and it passes repair_text, a parameter the
\* client (openrouter.py 169-180) does not have: no repair call is ever made
RepairCalls == 0

LogEntry(reply, out, filtered, degenerate, error, raised) ==
    [attempt |-> orch.attempt, rem |-> _remaining_s(orch.budget_s, elapsed), read |-> CallRead,
     timed_out |-> reply.timed_out, failed |-> reply.error # "", nout |-> Len(out), nvalid |-> Len(filtered),
     share3 |-> ThreeShare(filtered), nletters |-> LetterCount(filtered),
     content |-> reply.content, repairs |-> RepairCalls,
     degenerate |-> degenerate, error |-> error, raised |-> raised]

RepairWanted(reply, valid, error) ==
    /\ valid = << >>
    /\ orch.attempt < orch.cap_tries
    /\ reply.raw # ""
    /\ error \in {"invalid_json", "schema_validation_failed", "no_valid_questions"}

\* line 307 and the end of range(1, cap_tries + 1)
LastPass == ~orch.ok_or \/ orch.attempt = orch.cap_tries

\* lines 309-310
Slept == IF orch.ok_or /\ orch.attempt < orch.max_tries THEN Backoff(orch.attempt) ELSE 0

\* a batch of any size is enough
AnyValid(valid, min_q) == valid # << >>

\* line 294: if valid and len(valid) >= min_q
EnoughValid(valid, min_q) == valid # << >> /\ Len(valid) >= min_q

\* lines 270-310: the pass once the call has given out, of which filtered
\* passed _filter_questions
AfterCall(reply, out, filtered, degenerate) ==
    \E valid \in {IF degenerate THEN << >> ELSE filtered},
       error \in {IF degenerate THEN "degenerate_answers" ELSE ClientError(reply, out)} :
        /\ elapsed' = elapsed + Took(reply) + (IF EnoughValid(valid, orch.min_q) THEN 0 ELSE Slept)
        /\ aiLog' = Append(aiLog, LogEntry(reply, out, filtered, degenerate,
                                           IF error = "" THEN "empty" ELSE error, FALSE))
        /\ IF RepairWanted(reply, valid, error)
           \* the repair call passes repair_text, which the client does not
           \* take: TypeError, caught at line 445
           THEN /\ orch' = [orch EXCEPT !.pc = "done", !.out = out, !.errors = << ProviderError("TypeError") >>]
                /\ ReturnEmpty(<< ProviderError("TypeError") >>)
           ELSE IF EnoughValid(valid, orch.min_q)
           THEN /\ orch' = [orch EXCEPT !.pc = "done", !.out = out]
                /\ returned' = valid
                /\ debug_out' = [SetDebug(SetDebug(debug_out, "provider", "openrouter"), "provider_error", << >>)
                                    EXCEPT !.openrouter_attempts =
                                        IF orch.has_debug THEN SetDefault(@, orch.attempt) ELSE @]
           ELSE /\ orch' = [orch EXCEPT !.pc = IF LastPass THEN "after" ELSE "attempt",
                                        !.out = out,
                                        !.attempt = IF LastPass THEN @ ELSE @ + 1,
                                        !.best_valid = IF valid # << >> /\ Len(valid) > Len(@) THEN valid ELSE @,
                                        !.last_err = IF error = "" THEN "empty" ELSE error]
                /\ UNCHANGED << debug_out, returned >>

\* lines 445-447: an exception raised inside the provider's block is caught,
\* its type goes to the errors and the loop over the providers goes on
ProviderRaised(reply) ==
    /\ elapsed' = elapsed + Took(reply)
    /\ aiLog' = Append(aiLog, LogEntry(reply, << >>, << >>, FALSE, "ReadTimeout", TRUE))
    /\ orch' = [orch EXCEPT !.pc = "done", !.errors = << ProviderError("ReadTimeout") >>]
    /\ ReturnEmpty(<< ProviderError("ReadTimeout") >>)

\* lines 242-310: one pass of the attempt loop
Attempt(reply) ==
    /\ orch.pc = "attempt"
    /\ IF _budget_exhausted(orch.budget_s, elapsed)
       THEN /\ orch' = [orch EXCEPT !.pc = "after", !.last_err = "budget_exhausted"]
            /\ UNCHANGED << elapsed, debug_out, returned, aiLog >>
       ELSE IF ClientRaised(reply) THEN ProviderRaised(reply)
       ELSE \E out \in {ClientOut(reply)} :
                \E filtered \in {_filter_questions(out, orch.want)} :
                    \E degenerate \in {Degenerate(filtered)} :
                        AfterCall(reply, out, filtered, degenerate)
    /\ UNCHANGED otherThanAi

\* lines 312-317 and 449-453: after the loop
AfterLoop ==
    /\ orch.pc = "after"
    /\ IF orch.best_valid # << >> /\ Len(orch.best_valid) >= orch.min_q
       THEN /\ returned' = orch.best_valid
            /\ debug_out' = SetDebug(SetDebug(debug_out, "provider", "openrouter"), "provider_error", << >>)
            /\ orch' = [orch EXCEPT !.pc = "done"]
       ELSE /\ ReturnEmpty(<< ProviderError(orch.last_err) >>)
            /\ orch' = [orch EXCEPT !.pc = "done",
                                    !.errors = << ProviderError(orch.last_err) >>]
    /\ UNCHANGED << elapsed, aiLog >>
    /\ UNCHANGED otherThanAi

\* ========================================================================
\* Part F.  The heuristic question generator (services/quiz_generation.py)
\* ========================================================================
\* A string is a pair << marker, body >>: the list marker a line starts with
\* ("" when it has none) and the rest.  A line of the lesson text is such a
\* string with its length; the sentences are what re.split leaves of the text.
MaxTarget == 3

MaxLines == 2

FactCap == 40

PadTo == 10

MinFactLen == 25

MaxFactLen == 170

LowerBody(b) == IF b = "FACT ONE" THEN "fact one" ELSE b

LowerString(x) == << x[1], LowerBody(x[2]) >>

\* the ten sentences _pad_facts makes of the title
SeedBodies == << "seed 1", "seed 2", "seed 3", "seed 4", "seed 5",
                 "seed 6", "seed 7", "seed 8", "seed 9", "seed 10" >>

\* lines of a lesson text: list items, one of them twice in different case,
\* plain lines, a line too short, a line that reads like the first seed
TextLines ==
    {[marker |-> "-", body |-> "fact one", len |-> 30],
     [marker |-> "-", body |-> "FACT ONE", len |-> 30],
     [marker |-> "", body |-> "fact two", len |-> 40],
     [marker |-> "", body |-> "short", len |-> 5],
     [marker |-> "", body |-> "seed 1", len |-> 60]}

Texts == UNION {[1..n -> TextLines] : n \in 0..MaxLines}

\* the sentences of the text, taken to be its lines
SentencesOf(lines) == lines

HeuristicTitles == {"", "T"}

WholeLine(ln) == << ln.marker, ln.body >>

Unmarked(ln) == << "", ln.body >>

InFactRange(ln) == MinFactLen <= ln.len /\ ln.len <= MaxFactLen

RECURSIVE Uniq(_, _, _)
Uniq(picked, seen, uniq) ==
    IF picked = << >> THEN uniq
    ELSE IF LowerString(Head(picked)) \in seen THEN Uniq(Tail(picked), seen, uniq)
    ELSE Uniq(Tail(picked), seen \cup {LowerString(Head(picked))}, Append(uniq, Head(picked)))

\* the list items without their markers (marked), or the lines and sentences
\* of 25 to 170 characters
RECURSIVE SelectLines(_, _)
SelectLines(lines, marked) ==
    IF lines = << >> THEN << >>
    ELSE IF marked /\ Head(lines).marker # "" THEN << Unmarked(Head(lines)) >> \o SelectLines(Tail(lines), marked)
    ELSE IF ~marked /\ InFactRange(Head(lines)) THEN << WholeLine(Head(lines)) >> \o SelectLines(Tail(lines), marked)
    ELSE SelectLines(Tail(lines), marked)

extract_facts(lines) ==
    LET marked == SelectLines(lines, TRUE)
        picked == IF Len(marked) < 6 THEN marked \o SelectLines(lines, FALSE) ELSE marked
        uniq == Uniq(picked, {}, << >>)
        more == IF Len(uniq) < 8 THEN Uniq(uniq \o SelectLines(SentencesOf(lines), FALSE), {}, << >>) ELSE uniq
    IN  IF lines = << >> THEN << >> ELSE UpTo(more, FactCap)

RECURSIVE PadWith(_, _)
PadWith(base, seeds) ==
    IF seeds = << >> \/ Len(base) >= PadTo THEN base
    ELSE IF LowerString(<< "", Head(seeds) >>) \in {LowerString(base[i]) : i \in 1..Len(base)}
        THEN PadWith(base, Tail(seeds))
    ELSE PadWith(Append(base, << "", Head(seeds) >>), Tail(seeds))

_pad_facts(facts) == PadWith(facts, SeedBodies)

Letters == << "A", "B", "C", "D" >>

NoMCQ == [qtype |-> "none", correct_answer |-> << >>, options |-> 0]

\* every question make_single can return: the correct fact lands on any of
\* the positions rng.shuffle can give it
make_single(facts) ==
    IF Len(facts) < 4 THEN {NoMCQ}
    ELSE {[qtype |-> "single", correct_answer |-> << Letters[pos] >>,
           options |-> 1 + Min(3, Cardinality(Range(facts) \ {correct}))] :
            pos \in 1..4, correct \in Range(facts)}

\* the two correct facts land on any two positions; the letters are sorted
make_multi(facts) ==
    IF Len(facts) < 6 THEN {NoMCQ}
    ELSE {[qtype |-> "multi", correct_answer |-> << Letters[p[1]], Letters[p[2]] >>, options |-> 4] :
            p \in {pp \in (1..4) \X (1..4) : pp[1] < pp[2]}}

\* lines 151-161: the fixed question
FallbackMCQs == {[qtype |-> "single", correct_answer |-> << Letters[pos] >>, options |-> 4] : pos \in 1..4}

\* the default target, whatever is asked
WantDefault(target) == 3

\* want = max(1, int(target or 1))
Want(target) == Max(1, IF target = 0 THEN 1 ELSE target)

HeuristicIdle == heur = [pc |-> "idle", title |-> "", facts |-> << >>, want |-> 0, target |-> 0, out |-> << >>,
                         returned |-> << >>]

\* lines 137-141
HeuristicCall(title, theory_text, target) ==
    [pc |-> "loop", title |-> title, facts |-> _pad_facts(extract_facts(theory_text)), want |-> Want(target),
     target |-> target, out |-> << >>, returned |-> << >>]

\* lines 143-161: one pass of the while loop
HeuristicPass ==
    /\ heur.pc = "loop"
    /\ Len(heur.out) < heur.want
    /\ \E q \in (IF Len(heur.out) % 3 = 2 THEN make_multi(heur.facts) ELSE make_single(heur.facts)) :
        \E mcq \in (IF q # NoMCQ THEN {q} ELSE FallbackMCQs) :
            heur' = [heur EXCEPT !.out = Append(@, mcq)]
    /\ UNCHANGED otherThanHeuristic

\* line 163
HeuristicReturn ==
    /\ heur.pc = "loop"
    /\ Len(heur.out) >= heur.want
    /\ heur' = [heur EXCEPT !.pc = "done", !.returned = UpTo(heur.out, heur.want)]
    /\ UNCHANGED otherThanHeuristic

\* ========================================================================
\* Part G.  Final-exam assembly on modules of any shape
\*          (routers/quizzes.py, _select_final_question_ids_from_lessons)
\* ========================================================================
\* A module is the sequence of its submodules in Submodule.order; a submodule
\* is given by the number of questions in the quiz it points at.  The last
\* submodule is the final slot.  A question id is << submodule, number >>.
MaxPool == 3

MaxSubmodules == 6

MinSubmodules == 5

PoolSizes == 0..MaxPool

\* the quiz of the final slot
FinalSlotSize == 2

\* a module of MaxSubmodules lessons with two questions each, and its final slot
WideModule == [i \in 1..MaxSubmodules |-> 2] \o << FinalSlotSize >>

ModuleShapes ==
    UNION {{s \o << FinalSlotSize >> : s \in [1..(n - 1) -> PoolSizes]} : n \in MinSubmodules..MaxSubmodules}
        \cup { WideModule }

QuestionIdsOf(subs, i) == {<< i, k >> : k \in 1..subs[i]}

\* lines 149-160 without the shuffle: the non-empty pools of the submodules
\* before the last
RECURSIVE PoolSetsFrom(_, _)
PoolSetsFrom(subs, i) ==
    IF i >= Len(subs) THEN << >>
    ELSE IF QuestionIdsOf(subs, i) = {} THEN PoolSetsFrom(subs, i + 1)
    ELSE << QuestionIdsOf(subs, i) >> \o PoolSetsFrom(subs, i + 1)

\* how often each id occurs in a list: what is left of it once rng.shuffle
\* has put it in an order of its own
Occurrences(ids) == [q \in Range(ids) |-> Cardinality({i \in 1..Len(ids) : ids[i] = q})]

AssemblyIdle == asm = [pc |-> "idle", subs |-> << >>, pools |-> << >>, selected |-> << >>, returned |-> << >>]

\* lines 132-160: the pools, each shuffled
AssemblyPools ==
    /\ asm.pc = "pools"
    /\ \E pools \in ShuffledPools(PoolSetsFrom(asm.subs, 1)) :
        asm' = [asm EXCEPT !.pc = "select", !.pools = pools]
    /\ UNCHANGED otherThanAssembly

\* lines 162-186: phase 1, phase 2, the last shuffle
AssemblySelect ==
    /\ asm.pc = "select"
    /\ asm' = [asm EXCEPT !.pc = "done", !.selected = SelectFromPools(asm.pools),
                          !.returned = Occurrences(SelectFromPools(asm.pools))]
    /\ UNCHANGED otherThanAssembly

\* ========================================================================
\* Part H.  Read confirmations (routers/submodules.py, read_submodule)
\* ========================================================================
\* The submodule_opened rows of one learner for one lesson are kept by their
\* meta: "read" is the legacy plain value, JsonRead is {"action": "read"} and
\* JsonOpen is {"action": "open"}.  Every request runs in a transaction of
\* its own (READ COMMITTED), so it sees the rows committed before its query.
MaxReads == 3

MaxOpens == 1

Readers == {1, 2}

JsonRead == "{\"action\": \"read\"}"

JsonOpen == "{\"action\": \"open\"}"

ReadXp == 5

_meta_action_is_read(meta) == meta \in {"read", JsonRead}

\* ux_learning_events_read_once: unique on (user_id, ref_id) among the rows
\* with type = 'submodule_opened' AND meta = 'read'
ReadOnceViolated(meta, rows) == meta = "read" /\ \E i \in 1..Len(rows) : rows[i] = "read"

NoRead == [pc |-> "idle", xp_seen |-> 0]

ReadIdle ==
    /\ events = << >>
    /\ xp = 0
    /\ rowLock = 0
    /\ rd = [p \in Readers |-> NoRead]
    /\ awards = << >>
    /\ readsLeft = 0
    /\ opensLeft = 0
    /\ autoflush = FALSE

\* lines 108-135: load the submodule, record the activity (the User row is
\* loaded and last_activity_at changed in the session), count the rows with a
\* meta and answer 0 when one of them is a read.  With autoflush the count
\* query first flushes the UPDATE of the users row, which waits for the row
\* lock and keeps it until the transaction ends.
ReadCheck(p) ==
    /\ rd[p].pc = "idle"
    /\ readsLeft > 0
    /\ autoflush => rowLock = 0
    /\ readsLeft' = readsLeft - 1
    /\ IF \E i \in 1..Len(events) : _meta_action_is_read(events[i])
       THEN /\ awards' = Append(awards, 0)
            /\ UNCHANGED << rd, rowLock >>
       ELSE /\ rd' = [rd EXCEPT ![p] = [pc |-> "checked", xp_seen |-> xp]]
            /\ rowLock' = IF autoflush THEN p ELSE 0
            /\ UNCHANGED awards
    /\ UNCHANGED << events, xp, opensLeft, autoflush >>
    /\ UNCHANGED otherThanRead

\* lines 138-152: add the JSON read event, flush (the UPDATE of the users row
\* takes the row lock; the INSERT meets the unique index), award the XP on the
\* User object loaded before the check, commit
ReadInsert(p) ==
    /\ rd[p].pc = "checked"
    /\ rowLock \in {0, p}
    /\ rd' = [rd EXCEPT ![p] = NoRead]
    /\ rowLock' = 0
    /\ IF ReadOnceViolated(JsonRead, events)
       THEN /\ awards' = Append(awards, 0)
            /\ UNCHANGED << events, xp >>
       ELSE /\ events' = Append(events, JsonRead)
            /\ xp' = rd[p].xp_seen + ReadXp
            /\ awards' = Append(awards, ReadXp)
    /\ UNCHANGED << readsLeft, opensLeft, autoflush >>
    /\ UNCHANGED otherThanRead

\* open_submodule, lines 45-66: one more row, meta {"action": "open"}
OpenSubmodule ==
    /\ opensLeft > 0
    /\ rowLock = 0
    /\ opensLeft' = opensLeft - 1
    /\ events' = Append(events, JsonOpen)
    /\ UNCHANGED << xp, rowLock, rd, awards, readsLeft, autoflush >>
    /\ UNCHANGED otherThanRead
\* ========================================================================
\* Part I: stage timing in job.meta
\*   services/quiz_regeneration_jobs.py  _set_job_stage, _cancel_checkpoint,
\*                                       regenerate_submodule_quiz_job
\*   services/module_import_jobs.py      _set_job_stage (the same body)
\* ========================================================================
MaxClock == 3

StageNames == { "start", "ai", "replace", "commit", "done", "failed", "canceled" }

\* the calls of _set_job_stage that regenerate_submodule_quiz_job makes, as
\* << call site before, stage, call site >>; a site is named by its line
StageCalls ==
    { << "enqueued", "start", "l147" >>,
      << "l147", "failed", "l160" >>,      \* 160, 170, 180: invalid id, not found
      << "l147", "done", "l206" >>,        \* already_ok
      << "l147", "canceled", "l100" >>,    \* checkpoint "lesson", line 235
      << "l147", "ai", "l239" >>,
      << "l147", "failed", "l425" >>,
      << "l160", "failed", "l425" >>,      \* the raise of 166 reaches the handler
      << "l239", "canceled", "l100" >>,    \* checkpoint "ai", line 280
      << "l239", "failed", "l289" >>,      \* force_ai and no questions
      << "l239", "ai", "l307" >>,          \* the heuristic's questions are used
      << "l239", "replace", "l327" >>,
      << "l239", "failed", "l425" >>,
      << "l289", "failed", "l425" >>,
      << "l307", "replace", "l327" >>,
      << "l327", "canceled", "l100" >>,    \* checkpoint "replace", line 328
      << "l327", "commit", "l409" >>,
      << "l327", "failed", "l425" >>,
      << "l409", "canceled", "l100" >>,    \* checkpoint "commit", line 410
      << "l409", "done", "l412" >>,
      << "l409", "failed", "l425" >> }

NoDurations == [s \in StageNames |-> 0]

\* job.meta of a job that has not set a stage yet
NoStageMeta == [stage |-> "", stage_started_at |-> NoValue, job_started_at |-> NoValue,
                stage_durations_s |-> NoDurations]

StageIdle ==
    /\ utcnow = 0
    /\ stageMeta = NoStageMeta
    /\ stageSite = "enqueued"
    /\ firstStageAt = NoValue

\* lines 22-57: the meta that _set_job_stage saves
_set_job_stage(meta, stage, t) ==
    [stage |-> stage,
     stage_started_at |-> t,
     job_started_at |-> IF meta.job_started_at = NoValue THEN t ELSE meta.job_started_at,
     stage_durations_s |->
        IF meta.stage # "" /\ meta.stage_started_at # NoValue /\ meta.stage # stage
        THEN [meta.stage_durations_s EXCEPT ![meta.stage] = @ + Max(0, t - meta.stage_started_at)]
        ELSE meta.stage_durations_s]

\* one call of _set_job_stage by the job
JobSetsStage(c) ==
    /\ c[1] = stageSite
    /\ stageMeta' = _set_job_stage(stageMeta, c[2], utcnow)
    /\ stageSite' = c[3]
    /\ firstStageAt' = IF firstStageAt = NoValue THEN utcnow ELSE firstStageAt
    /\ UNCHANGED utcnow
    /\ UNCHANGED otherThanStage

\* the job works and datetime.utcnow() advances
JobWorks ==
    /\ utcnow < MaxClock
    /\ stageSite \notin { "l100", "l206", "l412", "l425" }
    /\ utcnow' = utcnow + 1
    /\ UNCHANGED << stageMeta, stageSite, firstStageAt >>
    /\ UNCHANGED otherThanStage

RECURSIVE SumDurations(_, _)
SumDurations(durs, stages) ==
    IF stages = {} THEN 0
    ELSE LET s == CHOOSE x \in stages : TRUE
         IN durs[s] + SumDurations(durs, stages \ {s})
\* ========================================================================
\* Part J: the learner against the versioned lesson quizzes
\*   routers/quizzes.py                  start_quiz, submit_quiz
\*   routers/submodules.py               read_submodule
\*   routers/linear.py                   can_access_submodule
\*   services/learning.py                get_module_progress
\*   services/quiz_regeneration_jobs.py  the quiz rows a regeneration commits
\* ========================================================================
\* One module: the submodules 1..ModuleSubs by order, the last one being the
\* final slot, and the module's final quiz.  Every quiz has time_limit NULL
\* (module_importer.py:531, quiz_regeneration_jobs.py:614), so submit makes no
\* time check and a session lives for DefaultSessionTtl seconds.
ModuleSubs == 3

MaxRegens == 1

MaxLearnerStarts == 2

MaxLearnerSubmits == 4

\* questions of a lesson quiz (the jobs write 5)
QuestionsPerQuiz == 2

\* Quiz.attempts_limit of every quiz the importer and the jobs create
AttemptsLimit == 3

\* XP of the first pass of a quiz and of a failed first attempt
PassXp == 25

FirstFailXp == 5

\* Module.final_quiz_id
FinalQuizId == 0

ModuleSubmodules == 1..ModuleSubs

\* every submodule but the last one
LessonSubs == 1..(ModuleSubs - 1)

\* the id of the Quiz row that regeneration number r creates for submodule s
\* (r = 0: the quiz the import created)
QuizVersion(s, r) == r * ModuleSubs + s

AllQuizIds == 0..((MaxRegens + 1) * ModuleSubs)

\* the submodule a lesson quiz was created for
LessonOf(z) == ((z - 1) % ModuleSubs) + 1

\* Question rows: the ids of the questions with quiz_id = z; regeneration
\* never deletes a question
QuestionsOf(z) == {10 * z + k : k \in 1..QuestionsPerQuiz}

\* Question.quiz_id
QuizOf(q) == q \div 10

\* Quiz.type
QuizTypeOf(z) == IF z = FinalQuizId THEN "final" ELSE "submodule"

\* select(Submodule).where(Submodule.quiz_id == quiz.id): the submodule whose
\* quiz_id is z now, 0 when there is none
SubmoduleWithQuiz(z) ==
    IF \E s \in ModuleSubmodules : lessonQuiz[s] = z
    THEN CHOOSE s \in ModuleSubmodules : lessonQuiz[s] = z
    ELSE 0

NoLearnerSession == [present |-> FALSE, qids |-> {}]

NoOp == [op |-> "none", quiz |-> 0, answered |-> {}, right |-> {}, status |-> "none",
         total |-> 0, score |-> 0, nserved |-> 0, recorded |-> FALSE, xp_awarded |-> 0]

LearnerIdle ==
    /\ lessonQuiz = [s \in ModuleSubmodules |-> QuizVersion(s, 0)]
    /\ regens = 0
    /\ readSubs = {}
    /\ sessionOf = [z \in AllQuizIds |-> NoLearnerSession]
    /\ attemptCount = [z \in AllQuizIds |-> 0]
    /\ passCount = [z \in AllQuizIds |-> 0]
    /\ served = [z \in AllQuizIds |-> {}]
    /\ userXp = 0
    /\ lastOp = NoOp
    /\ startsLeft = MaxLearnerStarts
    /\ submitsLeft = MaxLearnerSubmits

\* the lessons the learner studies
StudiedSubs == {1}

\* the quizzes the learner works on: the final exam, the quiz a studied lesson
\* was imported with and the quiz it has now
TargetQuizzes == {FinalQuizId} \cup UNION {{QuizVersion(s, 0), lessonQuiz[s]} : s \in StudiedSubs}

\* quizzes.py 131-187 and 286-309: the final exam takes up to two questions of
\* every lesson's current quiz and fills up to TargetMin; with
\* QuestionsPerQuiz * (ModuleSubs - 1) <= TargetMin that is every question
FinalSourceQuestions == UNION {QuestionsOf(lessonQuiz[s]) : s \in LessonSubs}

\* quizzes.py 311-333: a lesson quiz serves all its questions (variant_group
\* is NULL on every question the jobs write)
SourceQuestions(z) == IF QuizTypeOf(z) = "final" THEN FinalSourceQuestions ELSE QuestionsOf(z)

\* quizzes.py 216-241: the read confirmation is required when a submodule
\* points at the quiz and that submodule is not the last one of the module
ReadRequired(z) ==
    LET sub == SubmoduleWithQuiz(z)
    IN sub # 0 /\ sub # ModuleSubs

\* quizzes.py 196-379, for a learner whose requests do not overlap
start_quiz(z) ==
    /\ startsLeft > 0
    /\ z \in TargetQuizzes
    /\ startsLeft' = startsLeft - 1
    /\ LET existing_raw == IF QuizTypeOf(z) = "final" THEN NoLearnerSession ELSE sessionOf[z]
           selected == SourceQuestions(z)
           reply(status, n) == [NoOp EXCEPT !.op = "start", !.quiz = z, !.status = status, !.nserved = n]
       IN IF ReadRequired(z) /\ SubmoduleWithQuiz(z) \notin readSubs
          THEN /\ lastOp' = reply("403", 0)
               /\ UNCHANGED << sessionOf, served >>
          ELSE IF existing_raw.present /\ existing_raw.qids # {}
          THEN /\ lastOp' = reply("200", Cardinality(existing_raw.qids))
               /\ served' = [served EXCEPT ![z] = existing_raw.qids]
               /\ UNCHANGED sessionOf
          ELSE /\ sessionOf' = [sessionOf EXCEPT ![z] = [present |-> TRUE, qids |-> selected]]
               /\ served' = [served EXCEPT ![z] = selected]
               /\ lastOp' = reply("200", Cardinality(selected))
    /\ UNCHANGED << lessonQuiz, regens, readSubs, attemptCount, passCount, userXp, submitsLeft >>
    /\ UNCHANGED otherThanLearner

\* quizzes.py 439-477: the quizzes a submitted question may belong to
AllowedQuizIdsNow(z) ==
    IF QuizTypeOf(z) = "final" THEN {lessonQuiz[s] : s \in LessonSubs} ELSE {z}

\* quizzes.py 507-517: the XP of an attempt
XpAward(z, passed, attempt_no) ==
    IF passed
    THEN IF passCount[z] <= 0 THEN PassXp ELSE 0
    ELSE IF attempt_no = 1 THEN FirstFailXp ELSE 0

\* quizzes.py 382-566.  answered: the question ids of body.answers; right:
\* those among them whose answer _is_correct accepts.  The attempts are
\* counted for attempt_no only (243-245, 486-488): Quiz.attempts_limit is read
\* by no endpoint.
submit_quiz(z, answered, right) ==
    LET raw == sessionOf[z]
        fallback == ~raw.present
        question_ids == IF fallback THEN answered ELSE raw.qids
        qmap == {q \in question_ids : QuizOf(q) \in AllowedQuizIdsNow(z)}
        total == Cardinality(question_ids)
        correct == Cardinality(qmap \cap right)
        attempt_no == attemptCount[z] + 1
        score == Score(correct, total)
        passed == score >= PassThreshold
        xp_award == XpAward(z, passed, attempt_no)
        reply(status) == [op |-> "submit", quiz |-> z, answered |-> answered, right |-> right,
                          status |-> status, total |-> 0, score |-> 0,
                          nserved |-> Cardinality(served[z]), recorded |-> FALSE, xp_awarded |-> 0]
        reject(status) ==
            /\ lastOp' = reply(status)
            /\ UNCHANGED << sessionOf, attemptCount, passCount, served, userXp >>
    IN /\ submitsLeft > 0
       /\ z \in TargetQuizzes
       /\ right \subseteq answered
       /\ submitsLeft' = submitsLeft - 1
       /\ IF fallback /\ question_ids = {} THEN reject("409 session not found")
          ELSE IF Cardinality(qmap) # Cardinality(question_ids) THEN reject("409 invalid questions")
          ELSE /\ attemptCount' = [attemptCount EXCEPT ![z] = attempt_no]
               /\ passCount' = [passCount EXCEPT ![z] = IF passed THEN @ + 1 ELSE @]
               /\ userXp' = userXp + xp_award
               /\ sessionOf' = [sessionOf EXCEPT ![z] = NoLearnerSession]
               /\ served' = [served EXCEPT ![z] = {}]
               /\ lastOp' = [reply("200") EXCEPT !.total = total, !.score = score,
                                                 !.recorded = TRUE, !.xp_awarded = xp_award]
       /\ UNCHANGED << lessonQuiz, regens, readSubs, startsLeft >>
       /\ UNCHANGED otherThanLearner

\* the smallest id of a non-empty set of ids
Least(S) == CHOOSE q \in S : \A o \in S : q <= o

\* the bodies the learner submits for quiz z: answers to everything that was
\* served (or, with nothing served, to the quiz's source questions), an answer
\* to one question only, or no answer at all
Bodies(z) ==
    {{}} \cup UNION {{K, {Least(K)}} : K \in {served[z], SourceQuestions(z)} \ {{}}}

\* submodules.py 101-152: the first confirmation writes the read event and
\* awards ReadXp; a repeated one changes nothing
read_submodule(s) ==
    /\ s \in StudiedSubs
    /\ IF s \in readSubs
       THEN UNCHANGED << readSubs, userXp >>
       ELSE /\ readSubs' = readSubs \cup {s}
            /\ userXp' = userXp + ReadXp
    /\ UNCHANGED << lessonQuiz, regens, sessionOf, attemptCount, passCount, served, lastOp,
                    startsLeft, submitsLeft >>
    /\ UNCHANGED otherThanLearner

\* quiz_regeneration_jobs.py 611-619 and 710-713 (326-334 and 409-411 for the
\* job of one lesson): the commit of a regeneration that processed the
\* submodules S gives each of them a new Quiz row with new questions and moves
\* Submodule.quiz_id to it; the old quiz, its questions and the attempts on it
\* stay
PointersMoved(S, r) ==
    [s \in ModuleSubmodules |-> IF s \in S THEN QuizVersion(s, r) ELSE lessonQuiz[s]]

\* the sets of submodules one job regenerates: the studied lesson alone or all of them
RegenSets == {StudiedSubs, ModuleSubmodules}

RegenCommits(S) ==
    /\ regens < MaxRegens
    /\ regens' = regens + 1
    /\ lessonQuiz' = PointersMoved(S, regens + 1)
    /\ UNCHANGED << readSubs, sessionOf, attemptCount, passCount, served, userXp, lastOp,
                    startsLeft, submitsLeft >>
    /\ UNCHANGED otherThanLearner

\* quizzes.py 341: the session key is written with ex = 60 * 60 when the quiz
\* has no time limit; the learner waits that long and Redis drops the key
SessionExpires(z) ==
    /\ sessionOf[z].present
    /\ sessionOf' = [sessionOf EXCEPT ![z] = NoLearnerSession]
    /\ UNCHANGED << lessonQuiz, regens, readSubs, attemptCount, passCount, served, userXp,
                    lastOp, startsLeft, submitsLeft >>
    /\ UNCHANGED otherThanLearner

\* learning.py 217-232 and 299-300: a submodule is passed when the learner
\* has a passed attempt on the quiz the submodule points at now
get_module_progress(s) == passCount[lessonQuiz[s]] > 0

\* linear.py 16-48: every previous submodule has a passed attempt on the quiz
\* it points at now
can_access_submodule(s) ==
    Cardinality({p \in ModuleSubmodules : p < s /\ passCount[lessonQuiz[p]] > 0})
        = Cardinality({p \in ModuleSubmodules : p < s})
\* ========================================================================
\* Part K: job.meta between the worker's helpers and cancel_job
\*   services/quiz_regeneration_jobs.py  _set_job_stage, _job_heartbeat,
\*                                       _is_cancel_requested, _cancel_checkpoint,
\*                                       _set_job_error, regenerate_module_quizzes_job
\*   routers/admin.py                    cancel_job
\*   core/queue.py                       fetch_job
\* ========================================================================
\* job.meta is one field of the job's Redis hash: Job.fetch reads the whole
\* dictionary and save_meta() writes the whole dictionary back.
NoJobMeta == [stage |-> "", detail |-> "", cancel_requested |-> FALSE, error_code |-> ""]

\* the helper calls of regenerate_module_quizzes_job for a module of one
\* lesson, in program order, each with its line
JobScript ==
    << [op |-> "stage", arg |-> "start", line |-> 439],
       [op |-> "stage", arg |-> "load", line |-> 470],
       [op |-> "checkpoint", arg |-> "load", line |-> 471],
       [op |-> "checkpoint", arg |-> "lesson", line |-> 497],
       [op |-> "stage", arg |-> "ai", line |-> 506],
       [op |-> "heartbeat", arg |-> "AI", line |-> 507],
       [op |-> "checkpoint", arg |-> "ai", line |-> 547],
       [op |-> "stage", arg |-> "replace", line |-> 608],
       [op |-> "checkpoint", arg |-> "replace", line |-> 609],
       [op |-> "heartbeat", arg |-> "WRITE", line |-> 610],
       [op |-> "heartbeat", arg |-> "DONE", line |-> 678],
       [op |-> "stage", arg |-> "commit", line |-> 710],
       [op |-> "checkpoint", arg |-> "commit", line |-> 711],
       [op |-> "stage", arg |-> "done", line |-> 713] >>

\* force_ai and no questions: lines 575-581, then the handler of 721-728
FailedScript ==
    << [op |-> "stage", arg |-> "failed", line |-> 575],
       [op |-> "error", arg |-> "AI_FORMAT_INVALID", line |-> 576],
       [op |-> "stage", arg |-> "failed", line |-> 726],
       [op |-> "error", arg |-> "", line |-> 727] >>

\* _cancel_checkpoint after it has seen the flag: line 100, then the raise
CanceledScript ==
    << [op |-> "stage", arg |-> "canceled", line |-> 100] >>

ScriptOf(name) ==
    IF name = "failed" THEN FailedScript
    ELSE IF name = "canceled" THEN CanceledScript
    ELSE JobScript

\* the job has been dequeued: the worker holds the Job instance it fetched
JobFetched ==
    /\ redisMeta = NoJobMeta
    /\ workerMeta = NoJobMeta
    /\ worker = [script |-> "main", at |-> 1, loaded |-> FALSE, ended |-> ""]
    /\ adminReq = [pc |-> "idle", meta |-> NoJobMeta]

CancelIdle ==
    /\ rqFetches = FALSE
    /\ JobFetched

\* meta = dict(job.meta or {}) after job = get_current_job(): the meta of a job
\* fetched from Redis at this moment, or the meta of the instance the worker
\* dequeued, whichever the installed RQ's get_current_job returns
WorkerLoadsMeta ==
    /\ worker.ended = ""
    /\ ~worker.loaded
    /\ workerMeta' = IF rqFetches THEN redisMeta ELSE workerMeta
    /\ worker' = [worker EXCEPT !.loaded = TRUE]
    /\ UNCHANGED << redisMeta, adminReq, rqFetches >>
    /\ UNCHANGED otherThanCancel

\* lines 22-57: _set_job_stage changes stage (and detail) of its copy
StageWrite(meta, stage) == [meta EXCEPT !.stage = stage, !.detail = stage]

\* lines 60-76: _job_heartbeat changes detail (and stage_at) of its copy
_job_heartbeat(meta, detail) == [meta EXCEPT !.detail = detail]

\* lines 104-124: _set_job_error changes the error fields of its copy
ErrorWrite(meta, error_code) == [meta EXCEPT !.error_code = _set_job_error(error_code)]

\* lines 79-90: the flag as the helper's copy of the meta has it
_is_cancel_requested(meta) == meta.cancel_requested

\* job.meta = meta; job.save_meta(): the stored dictionary is replaced by the
\* helper's copy
save_meta(meta) == meta

\* the position after the current call of the script
Advance(w) ==
    IF w.at < Len(ScriptOf(w.script))
    THEN [w EXCEPT !.at = @ + 1, !.loaded = FALSE]
    ELSE [w EXCEPT !.loaded = FALSE,
                   !.ended = IF w.script = "main" THEN "done" ELSE w.script]

\* the rest of a helper call after it has its copy of the meta.  ai_failed:
\* the lesson's AI generation gave nothing under force_ai (lines 570-581).
WorkerActs(ai_failed) ==
    /\ worker.ended = ""
    /\ worker.loaded
    /\ LET step == ScriptOf(worker.script)[worker.at]
           save(meta) ==
               /\ workerMeta' = meta
               /\ redisMeta' = save_meta(meta)
               /\ worker' = Advance(worker)
       IN IF step.op = "stage" THEN ai_failed = FALSE /\ save(StageWrite(workerMeta, step.arg))
          ELSE IF step.op = "heartbeat" THEN ai_failed = FALSE /\ save(_job_heartbeat(workerMeta, step.arg))
          ELSE IF step.op = "error" THEN ai_failed = FALSE /\ save(ErrorWrite(workerMeta, step.arg))
          ELSE /\ ai_failed => step.arg = "ai"
               /\ worker' = IF _is_cancel_requested(workerMeta)
                            THEN [script |-> "canceled", at |-> 1, loaded |-> FALSE, ended |-> ""]
                            ELSE IF ai_failed
                            THEN [script |-> "failed", at |-> 1, loaded |-> FALSE, ended |-> ""]
                            ELSE Advance(worker)
               /\ UNCHANGED << redisMeta, workerMeta >>
    /\ UNCHANGED << adminReq, rqFetches >>
    /\ UNCHANGED otherThanCancel

\* admin.py 1947-1957: cancel_job fetches the job of a running regeneration
\* (job_kind is "regen", so the request is not refused)
CancelFetches ==
    /\ adminReq.pc = "idle"
    /\ worker.ended = ""
    /\ adminReq' = [pc |-> "fetched", meta |-> redisMeta]
    /\ UNCHANGED << redisMeta, workerMeta, worker, rqFetches >>
    /\ UNCHANGED otherThanCancel

\* admin.py 1964-1977: the flag is set in the request's copy and the copy is
\* saved; job.cancel() does not stop a job that has started and does not
\* touch the meta
CancelSaves ==
    /\ adminReq.pc = "fetched"
    /\ adminReq' = [adminReq EXCEPT !.pc = "saved"]
    /\ redisMeta' = save_meta([adminReq.meta EXCEPT !.cancel_requested = TRUE])
    /\ UNCHANGED << workerMeta, worker, rqFetches >>
    /\ UNCHANGED otherThanCancel
\* ========================================================================
\* The specifications
\* ========================================================================
\* the groups of variables added after the first three
RestIdle ==
    /\ ValidatorIdle
    /\ AiIdle
    /\ HeuristicIdle
    /\ AssemblyIdle
    /\ ReadIdle
    /\ StageIdle
    /\ LearnerIdle
    /\ CancelIdle

QuizNext ==
    \/ \E p \in Callers : StartRead(p)
    \/ \E p \in Callers : StartWrite(p)
    \/ \E a \in AnswerSets : \E c \in SUBSET a : SubmitQuiz(a, c)
    \/ ConfirmRead
    \/ \E q \in QuestionIds : DeleteQuestion(q)
    \/ Tick

\* the learner's quiz is any of the two; nothing has been enqueued
QuizSpecInit ==
    /\ quiz \in Quizzes
    /\ QuizIdle
    /\ EnqIdle
    /\ JobsIdle
    /\ RestIdle

SpecQuiz == QuizSpecInit /\ [][QuizNext]_vars

EnqNext ==
    \/ \E p \in Admins, k \in ObjectKeys, t \in Titles : EnqCheck(p, k, t)
    \/ \E p \in Admins : EnqEnqueue(p)
    \/ LockExpire
    \/ \E mid \in 1..MaxEnqueues : DeleteModule(mid)
    \/ \E k \in ObjectKeys : AbortImportZip(k)
    \/ \E j \in 1..MaxEnqueues : JobFinish(j)
    \/ \E j \in 1..MaxEnqueues : CancelImportJob(j)

EnqSpecInit ==
    /\ quiz = "LQ"
    /\ QuizIdle
    /\ EnqIdle
    /\ JobsIdle
    /\ RestIdle

SpecEnqueue == EnqSpecInit /\ [][EnqNext]_vars

JobsNext ==
    \/ \E with_module_id \in BOOLEAN, job_kind \in {"", "import"} : ImportInvoke(with_module_id, job_kind)
    \/ ImportBegin
    \/ \E found \in BOOLEAN : ImportDownload(found)
    \/ ImportExtract
    \/ \E title_taken \in BOOLEAN : ImportToDb(title_taken)
    \/ ImportToDbError
    \/ ImportCommit
    \/ ImportCleanup
    \/ \E only_missing \in BOOLEAN, force_ai \in BOOLEAN : RegenInvoke(only_missing, force_ai)
    \/ \E l \in Lessons, force \in BOOLEAN, force_ai \in BOOLEAN : RegenSubmoduleInvoke(l, force, force_ai)
    \/ RegenSubmoduleLoad
    \/ RegenLoad
    \/ RegenLesson
    \/ \E ai_ok \in BOOLEAN : RegenAi(ai_ok)
    \/ \E heuristic_ok \in HeuristicGenerated : RegenReplace(heuristic_ok)
    \/ RegenCommit
    \/ CancelJob
    \/ \E target \in BOOLEAN : SetModuleVisibility(target)
    \/ \E quiz_id \in 1..(MaxJobRuns * (MaxLessons + 1)), t \in AdminTags : CreateQuestion(quiz_id, t)
    \/ \E row \in questionRows, t \in AdminTags : UpdateQuestion(row, t)
    \/ \E l \in Lessons : RecordAttempt(l)

JobsSpecInit ==
    /\ quiz = "LQ"
    /\ QuizIdle
    /\ EnqIdle
    /\ JobsIdle
    /\ RestIdle

SpecJobs == JobsSpecInit /\ [][JobsNext]_vars


ValidatorNext ==
    \/ Validate
    \/ ValidateAgain

ValidatorSpecInit ==
    /\ quiz = "LQ"
    /\ QuizIdle
    /\ EnqIdle
    /\ JobsIdle
    /\ cand \in Candidates
    /\ seen_prompts = {}
    /\ accepted = << >>
    /\ validated = 0
    /\ AiIdle
    /\ HeuristicIdle
    /\ AssemblyIdle
    /\ ReadIdle
    /\ StageIdle
    /\ LearnerIdle
    /\ CancelIdle

SpecValidator == ValidatorSpecInit /\ [][ValidatorNext]_vars

AiNext ==
    \/ \E ok_or \in BOOLEAN, d \in 0..1 : EnterProvider(ok_or, d)
    \/ \E reply \in ClientReplies : Attempt(reply)
    \/ AfterLoop

\* the call's arguments: n_questions, min_questions, retries, time budget
AiSpecInit ==
    /\ quiz = "LQ"
    /\ QuizIdle
    /\ EnqIdle
    /\ JobsIdle
    /\ ValidatorIdle
    /\ \E n_questions \in RequestedCounts, min_questions \in {NoValue, 1}, retries \in {1, 3},
          budget \in Budgets, enabled \in BOOLEAN, has_debug \in BOOLEAN :
            orch = AiCall(n_questions, min_questions, retries, budget, enabled, has_debug)
    /\ elapsed = 0
    /\ debug_out = NoDebug
    /\ returned = << >>
    /\ aiLog = << >>
    /\ HeuristicIdle
    /\ AssemblyIdle
    /\ ReadIdle
    /\ StageIdle
    /\ LearnerIdle
    /\ CancelIdle

SpecAi == AiSpecInit /\ [][AiNext]_vars

HeuristicNext ==
    \/ HeuristicPass
    \/ HeuristicReturn

\* the call's arguments: the callers pass a target of at least 1
HeuristicSpecInit ==
    /\ quiz = "LQ"
    /\ QuizIdle
    /\ EnqIdle
    /\ JobsIdle
    /\ ValidatorIdle
    /\ AiIdle
    /\ \E title \in HeuristicTitles, theory_text \in Texts, target \in 1..MaxTarget :
            heur = HeuristicCall(title, theory_text, target)
    /\ AssemblyIdle
    /\ ReadIdle
    /\ StageIdle
    /\ LearnerIdle
    /\ CancelIdle

SpecHeuristic == HeuristicSpecInit /\ [][HeuristicNext]_vars

AssemblyNext ==
    \/ AssemblyPools
    \/ AssemblySelect

\* the module the final exam is assembled for
AssemblySpecInit ==
    /\ quiz = "LQ"
    /\ QuizIdle
    /\ EnqIdle
    /\ JobsIdle
    /\ ValidatorIdle
    /\ AiIdle
    /\ HeuristicIdle
    /\ ReadIdle
    /\ StageIdle
    /\ LearnerIdle
    /\ CancelIdle
    /\ \E subs \in ModuleShapes :
            asm = [pc |-> "pools", subs |-> subs, pools |-> << >>, selected |-> << >>, returned |-> << >>]

SpecAssembly == AssemblySpecInit /\ [][AssemblyNext]_vars

ReadNext ==
    \/ \E p \in Readers : ReadCheck(p)
    \/ \E p \in Readers : ReadInsert(p)
    \/ OpenSubmodule

\* the rows the learner has for the lesson before the requests: none, a
\* legacy read row or an open row; the session factory with or without autoflush
ReadSpecInit ==
    /\ quiz = "LQ"
    /\ QuizIdle
    /\ EnqIdle
    /\ JobsIdle
    /\ ValidatorIdle
    /\ AiIdle
    /\ HeuristicIdle
    /\ AssemblyIdle
    /\ events \in {<< >>, << "read" >>, << JsonOpen >>}
    /\ xp \in {0, 95}
    /\ rowLock = 0
    /\ rd = [p \in Readers |-> NoRead]
    /\ awards = << >>
    /\ readsLeft = MaxReads
    /\ opensLeft = MaxOpens
    /\ autoflush \in BOOLEAN
    /\ StageIdle
    /\ LearnerIdle
    /\ CancelIdle

SpecRead == ReadSpecInit /\ [][ReadNext]_vars

StageNext ==
    \/ \E c \in StageCalls : JobSetsStage(c)
    \/ JobWorks

\* a job that was enqueued and has not run yet
StageSpecInit ==
    /\ quiz = "LQ"
    /\ QuizIdle
    /\ EnqIdle
    /\ JobsIdle
    /\ ValidatorIdle
    /\ AiIdle
    /\ HeuristicIdle
    /\ AssemblyIdle
    /\ ReadIdle
    /\ StageIdle
    /\ LearnerIdle
    /\ CancelIdle

SpecStage == StageSpecInit /\ [][StageNext]_vars

LearnerNext ==
    \/ \E z \in AllQuizIds : start_quiz(z)
    \/ \E z \in AllQuizIds : \E answered \in Bodies(z) : \E right \in {answered, {}} : submit_quiz(z, answered, right)
    \/ \E s \in ModuleSubmodules : read_submodule(s)
    \/ \E S \in RegenSets : RegenCommits(S)
    \/ \E z \in AllQuizIds : SessionExpires(z)

LearnerSpecInit ==
    /\ quiz = "LQ"
    /\ QuizIdle
    /\ EnqIdle
    /\ JobsIdle
    /\ RestIdle

SpecLearner == LearnerSpecInit /\ [][LearnerNext]_vars

CancelNext ==
    \/ WorkerLoadsMeta
    \/ \E ai_failed \in BOOLEAN : WorkerActs(ai_failed)
    \/ CancelFetches
    \/ CancelSaves

CancelSpecInit ==
    /\ quiz = "LQ"
    /\ QuizIdle
    /\ EnqIdle
    /\ JobsIdle
    /\ ValidatorIdle
    /\ AiIdle
    /\ HeuristicIdle
    /\ AssemblyIdle
    /\ ReadIdle
    /\ StageIdle
    /\ LearnerIdle
    /\ rqFetches \in BOOLEAN
    /\ JobFetched

SpecCancel == CancelSpecInit /\ [][CancelNext]_vars
\* ------------------------------------------------------------------------
\* Properties of the quiz sessions
\* ------------------------------------------------------------------------

\* C1 (as stated): for a non-final quiz, two start calls with no submit in
\* between return the same question ids in the same order.  No start follows
\* a submit in SpecQuiz, so every pair of consecutive answers is such a pair.
C1_TwoStartsSameOrder ==
    [][(/\ ~_is_final_quiz(quiz)
        /\ lastReply.status = "200"
        /\ lastReply'.status = "200") => lastReply'.result = lastReply.result]_vars

\* C1 (amended): a start call for a non-final quiz that finds the session
\* holding the ids the previous start returned (it has not expired, Redis is
\* reachable, no concurrent start has overwritten it) and whose questions all
\* still exist returns those ids again, in the same order, and leaves the
\* session, its started_at and the quiz_started events as they were.
C1_ReuseReturnsStoredOrder ==
    [][(/\ ~_is_final_quiz(quiz)
        /\ lastReply.status = "200"
        /\ callsLeft' < callsLeft
        /\ lastReply'.status = "200"
        /\ RedisGet.present
        /\ RedisGet.qids = lastReply.result
        /\ Range(RedisGet.qids) \subseteq qExists
        /\ lastReply'.reused)
       => /\ lastReply'.result = lastReply.result
          /\ session' = session
          /\ startedEvents' = startedEvents]_vars

\* C1 witness: a second start has answered from the stored two-question session
C1_Witness ==
    /\ quiz = "LQ"
    /\ lastReply.status = "200"
    /\ lastReply.reused
    /\ Len(lastReply.result) = 2
    /\ session.present
    /\ lastReply.result = session.qids
    /\ startedEvents = 1

\* C2 (as stated): no attempt is recorded by a submit made later than the
\* quiz's time limit after the learner's latest start, even when every
\* submitted id belongs to the quiz.
C2_LateSubmitRecordsNothing ==
    \A i \in DOMAIN attempts :
        (TimeLimit[quiz] # 0 /\ attempts[i].allBelong) => attempts[i].sinceStart <= TimeLimit[quiz]

\* C3 (as stated): while a session exists, no step changes its question-id
\* list, for lesson and final quizzes and under concurrent start calls.
C3_SessionIdsImmutable ==
    [][(session.present /\ session'.present) => session'.qids = session.qids]_vars

\* C4 (as stated): a submit that finds no session records an attempt only if
\* every question id the learner supplied belongs to the quiz.
C4_FallbackOnlyIfAllBelong ==
    \A i \in DOMAIN attempts : attempts[i].fallback => attempts[i].allBelong

\* a start_quiz request returns in this step
StartReturns == \E p \in Callers : call[p].pc = "read" /\ call'[p].pc = "idle"

\* C17: a final-exam start never succeeds with an empty question list; when
\* assembly finds no eligible source question the start fails with 409 and
\* writes neither a session nor a quiz_started event.
C17_EmptyFinalStartFails ==
    /\ [](_is_final_quiz(quiz) /\ lastReply.status = "200" => lastReply.result # << >>)
    /\ [][(_is_final_quiz(quiz) /\ StartReturns /\ _select_final_question_ids_from_lessons = { << >> })
            => /\ lastReply'.status = "409"
               /\ session' = session
               /\ startedEvents' = startedEvents]_vars

\* a final exam started once, every lesson question deleted, the next start refused
C17_Witness ==
    /\ _is_final_quiz(quiz)
    /\ qExists = {}
    /\ lastReply.status = "409"
    /\ startedEvents = 1
    /\ session.present
    /\ session.qids # << >>

\* a start_quiz request arrives in this step and the session key is in Redis
StartFindsSession ==
    /\ callsLeft' < callsLeft
    /\ readConfirmed
    /\ session.present
    /\ session.exp > now

\* C20: a start call for a non-final quiz that finds an existing session
\* answers from it at once: it records no quiz_started event and leaves the
\* session, and so its started_at, as it found them.
C20_ReuseKeepsTimerAndEvents ==
    [][(~_is_final_quiz(quiz) /\ StartFindsSession)
        => /\ lastReply'.reused
           /\ call' = call
           /\ startedEvents' = startedEvents
           /\ session'.started = session.started
           /\ session'.exp = session.exp]_vars

\* a session started at second 0 is found again one second later: one event,
\* the first start's started_at
C20_Witness ==
    /\ quiz = "LQ"
    /\ lastReply.reused
    /\ session.present
    /\ session.started = lastStart
    /\ now > session.started
    /\ startedEvents = 1
    /\ callsLeft = MaxStartCalls - 2

\* n is an integer nearest to 100 * correct / total
NearestPercent(n, correct, total) ==
    /\ 2 * (100 * correct - n * total) <= total
    /\ 2 * (n * total - 100 * correct) <= total

\* C21: every recorded attempt has 0 <= correct <= total, a score that is
\* 100 * correct / total rounded to the nearest integer (0 when total is 0),
\* 0 <= score <= 100, and passed exactly when the score reaches the quiz's
\* pass threshold.
C21_ScoreIsRoundedPercent ==
    \A i \in DOMAIN attempts :
        /\ 0 <= attempts[i].correct
        /\ attempts[i].correct <= attempts[i].total
        /\ IF attempts[i].total = 0 THEN attempts[i].score = 0
           ELSE NearestPercent(attempts[i].score, attempts[i].correct, attempts[i].total)
        /\ 0 <= attempts[i].score
        /\ attempts[i].score <= 100
        /\ attempts[i].passed <=> attempts[i].score >= PassThreshold

\* two of the three questions of a final exam answered right: 66.67 becomes
\* 67, below the threshold
C21_Witness ==
    \E i \in DOMAIN attempts :
        /\ attempts[i].total = 3
        /\ attempts[i].correct = 2
        /\ attempts[i].score = 67
        /\ ~attempts[i].passed

\* ------------------------------------------------------------------------
\* Properties of the import enqueue deduplication
\* ------------------------------------------------------------------------

C6_ConcurrentEnqueueCreatesOneJob ==
    \A j \in 1..Len(rqJobs) : rqJobs[j].raced = {}

\* the enqueue locks that name job j after the step
LocksAfter(j) ==
    {<< "object_key", k >> : k \in {x \in ObjectKeys : lockByObjectKey'[x] = j}}
    \cup {<< "fingerprint", f >> : f \in {x \in Fingerprints : lockByFingerprint'[x] = j}}
    \cup {<< "title", t >> : t \in {x \in NormTitles : lockByTitle'[x] = j}}

\* the cancel operation answered for an import job
CancelAnswered ==
    /\ lastEnq' # lastEnq
    /\ lastEnq'.status \in {"409 job is not cancellable", "200 canceled"}

\* C33: once an import job has been cancelled through the cancel operation,
\* or the module it was enqueued for has been deleted, none of the enqueue
\* locks (object key, normalized title, fingerprint) names that job any more.
C33_CancelOrDeleteReleasesLocks ==
    /\ [][CancelAnswered => LocksAfter(lastEnq'.named) = {}]_vars
    /\ [][\A m \in modules \ modules' : LocksAfter(m.id) = {}]_vars
\* ========================================================================
\* Properties of the import and regeneration jobs
\* ========================================================================

\* a regeneration job ends in this step, the flag having been set while it
\* was processing lesson flagLesson
RegenEndsAfterFlagInLesson ==
    /\ job.kind = "regen"
    /\ job'.kind = "none"
    /\ flagLesson > 0

\* the job touched no lesson after the one the flag was set in, and nothing
\* the job wrote for a later lesson is in the store
StoppedAtFlagLesson ==
    /\ \A l \in processed' : l <= flagLesson
    /\ \A r \in questionRows' : r.run = runs => r.lesson <= flagLesson

C10_VisibleModuleHasNoNeedsRegen ==
    (module.exists /\ module.active)
        => \A r \in questionRows : r.quiz \in ActiveQuizIds => ~NeedsRegen(r.tag)

\* a step of a regeneration job (every step of a job moves its position)
RegenJobStep == (job.kind = "regen" \/ job'.kind = "regen") /\ job' # job

\* every stored attempt refers to a stored quiz and its answers to stored questions
AttemptsReferToRows ==
    \A a \in attemptRows :
        /\ a.quiz \in quizRows
        /\ \A k \in a.answers : \E r \in questionRows : QuestionKey(r) = k

\* C11: a regeneration job never modifies or deletes an existing quiz,
\* question, attempt or attempt-answer row; it only inserts quizzes and
\* questions and moves the lessons' active quiz pointers (the module row, its
\* final quiz pointer included, stays as it is), so every stored attempt
\* still refers to a stored quiz and stored questions.
C11_RegenOnlyInserts ==
    [][RegenJobStep =>
          /\ questionRows \subseteq questionRows'
          /\ quizRows \subseteq quizRows'
          /\ attemptRows' = attemptRows
          /\ module' = module
          /\ AttemptsReferToRows']_vars

\* C11 witness: a regeneration has committed new quizzes, and an attempt made
\* before it refers to a quiz that is no longer the active one of any lesson
C11_Witness ==
    /\ job.kind = "none"
    /\ outcome.kind = "regen"
    /\ outcome.result = "ok"
    /\ subQuiz # subQuizBefore
    /\ \E a \in attemptRows : a.quiz \notin ActiveQuizIds /\ a.quiz \in quizRows /\ a.answers # {}

AiFailedLessonStep == job.kind = "regen" /\ job.pc = "replace" /\ ~job.ai_ok /\ job' # job

HeuristicStoredFor(l, rows) ==
    \E r \in rows : r.lesson = l /\ r.run = runs /\ r.tag = RegenHeuristicTag /\ r.n = TargetQuestions

\* C22: when the AI generation of a lesson yields no questions, a job that
\* may fall back does not fail: it writes the heuristic questions for the
\* lesson and goes on to the next lesson or the commit (unless its "replace"
\* checkpoint observes a cancellation, which ends it canceled and not
\* failed); a force-AI job ends in the failed stage by an exception and
\* nothing of any lesson is committed.
C22_AiFailureFallsBackOrFails ==
    [][AiFailedLessonStep =>
        IF job.force_ai
        THEN /\ outcome'.result = "raised"
             /\ outcome'.stage = "failed"
             /\ tx' = NoTx
             /\ questionRows' = questionRows
             /\ quizRows' = quizRows
             /\ subQuiz' = subQuiz
        ELSE /\ outcome'.result # "raised"
             /\ jobMeta'.stage # "failed"
             /\ ~CancelRequested =>
                   /\ HeuristicStoredFor(job.lesson, tx'.questions)
                   /\ job'.kind = "regen"
                   /\ job'.pc \in {"lesson", "commit"}]_vars

\* a module job whose first lesson fell back to the heuristic and whose second
\* lesson got AI questions has committed both
C22_Witness ==
    /\ outcome.kind = "regen"
    /\ outcome.result = "ok"
    /\ HeuristicStoredFor(1, questionRows)
    /\ \E r \in questionRows : r.lesson = 2 /\ r.run = runs /\ r.tag = RegenAiTag

\* the code the raise site of a classified failure stores: the module (or the
\* lesson) is not found at the load, the AI gave no questions under force_ai
ClassifiedCodes ==
    IF job.pc \in { "load", "load1" } THEN { "MODULE_NOT_FOUND", "SUBMODULE_NOT_FOUND" }
    ELSE { "AI_FORMAT_INVALID" }

\* C25: when a regeneration job fails for a classified reason (target not
\* found, AI generation failure) the error code left in the job's terminal
\* metadata is that specific code and not the generic one.
C25_ClassifiedCodeKept ==
    [][(job.kind = "regen" /\ job.pc \in { "load", "load1", "replace" }
        /\ outcome' # outcome /\ outcome'.result = "raised")
       => outcome'.error_code \in ClassifiedCodes]_vars

\* ========================================================================
\* Claims about the validation of AI output and the orchestrator
\* ========================================================================
SingleChoice(q) == RawType(q) # "multi"

\* C13: every single-choice candidate the validator accepts has all four
\* options A to D parsed, the four pairwise distinct after normalization,
\* and a correct answer that resolves to one of the letters A to D; a
\* candidate with an option missing or an unresolvable answer is not accepted.
C13_ValidatorSound ==
    \A i \in 1..Len(accepted) :
        SingleChoice(accepted[i]) =>
            /\ Len(_extract_abcd_options(accepted[i].prompt)) = 4
            /\ \A a, b \in 1..4 : a # b => NormOpts(accepted[i])[a] # NormOpts(accepted[i])[b]
            /\ \A a \in 1..4 : NormOpts(accepted[i])[a] # << >>
            /\ _norm_correct_answer(accepted[i].correct_answer) \in ABCD

\* a single-choice candidate written with all four head formats, an E line
\* and a lower-case answer was accepted once and refused the second time
C13_Witness ==
    /\ validated = 2
    /\ Len(accepted) = 1
    /\ SingleChoice(accepted[1])
    /\ Len(accepted[1].prompt) = 6
    /\ accepted[1].correct_answer = << " ", "b", ")" >>

ResolvedLetters(items) == {_norm_correct_answer(items[i].correct_answer) : i \in 1..Len(items)}

\* C14: a list of three or more questions that the orchestrator returns, or
\* keeps as its best batch, never has one and the same letter as the correct
\* answer of all its questions.
C14_NoDegenerateBatch ==
    /\ (orch.pc = "done" /\ Len(returned) >= 3) => Cardinality(ResolvedLetters(returned)) > 1
    /\ Len(orch.best_valid) >= 3 => Cardinality(ResolvedLetters(orch.best_valid)) > 1

\* a batch of three was returned by the attempt after one whose three valid
\* questions all had the same answer
C14_Witness ==
    /\ orch.pc = "done"
    /\ Len(returned) = 3
    /\ Len(aiLog) = 2
    /\ aiLog[1].degenerate
    /\ aiLog[1].nvalid = 3

TimeoutThenDegenerate ==
    /\ Len(aiLog) = 2
    /\ aiLog[1].timed_out
    /\ aiLog[1].read # NoValue
    /\ aiLog[2].degenerate

\* C18: when the first call timed out after the read timeout computed for
\* it, the second gave only degenerate answers and the third gives at least
\* min_q valid, non-degenerate questions, the orchestrator returns what
\* _filter_questions kept of the third call's list and, in the caller's debug
\* dict, reports the provider openrouter with openrouter_attempts = 3.
C18_ThirdAttemptReturned ==
    [][(/\ TimeoutThenDegenerate
        /\ orch.pc = "attempt"
        /\ Len(aiLog') = 3
        /\ ~aiLog'[3].degenerate
        /\ aiLog'[3].nvalid >= orch.min_q)
       => /\ orch.attempt = 3
          /\ returned' = _filter_questions(orch'.out, orch.want)
          /\ Len(returned') >= orch.min_q
          /\ orch.has_debug => /\ debug_out'.provider = "openrouter"
                               /\ debug_out'.openrouter_attempts = 3]_vars

C18_Witness ==
    /\ Len(aiLog) = 3
    /\ aiLog[1].timed_out
    /\ aiLog[1].read = PerAttempt
    /\ aiLog[2].degenerate
    /\ orch.pc = "done"
    /\ Len(returned) = 3
    /\ orch.has_debug
    /\ debug_out.openrouter_attempts = 3
    /\ debug_out.provider = "openrouter"

LastCall == aiLog[Len(aiLog)]

\* C23: no failure of a provider call (timeout, transport error, malformed
\* JSON, schema mismatch, degenerate answers) leaves the client or the
\* orchestrator as an exception: the client of every logged call returned,
\* with an empty list when the call failed, and once the orchestrator is done
\* with an empty list its caller's debug dict names no provider and carries
\* the reason: the error of the last call, or budget_exhausted.
C23_FailuresNeverPropagate ==
    /\ \A i \in 1..Len(aiLog) : /\ ~aiLog[i].raised
                                /\ aiLog[i].failed => aiLog[i].nout = 0
    /\ (orch.pc = "done" /\ returned = << >> /\ orch.has_debug)
         => /\ debug_out.provider = "None"
            /\ debug_out.error # Unset
            /\ debug_out.provider_error # << PlainError(Unset) >>
            /\ (aiLog # << >> /\ (LastCall.failed \/ LastCall.degenerate))
                 => debug_out.provider_error \in { << ProviderError(LastCall.error) >>,
                                                   << ProviderError("budget_exhausted") >> }

\* the only call timed out and the orchestrator returned an empty list with
\* the timeout as the provider's error
C23_Witness ==
    /\ orch.pc = "done"
    /\ returned = << >>
    /\ orch.has_debug
    /\ Len(aiLog) = 1
    /\ aiLog[1].timed_out
    /\ aiLog[1].nout = 0
    /\ debug_out.provider_error = << ProviderError("request_failed:ReadTimeout") >>

BudgetSpent == _budget_exhausted(orch.budget_s, elapsed)

BudgetReported ==
    orch.has_debug => debug_out'.provider_error \in { << PlainError("budget_exhausted") >>,
                                                       << ProviderError("budget_exhausted") >> }

\* C26: the orchestrator checks the remaining budget before the provider and
\* before every attempt: every provider call it started had budget left, and
\* a check that finds the budget spent is followed by no further call and by
\* an empty result whose provider_error is budget_exhausted.
C26_NoCallWithoutBudget ==
    /\ [](\A i \in 1..Len(aiLog) : aiLog[i].rem = NoValue \/ aiLog[i].rem > 0)
    /\ [][(BudgetSpent /\ orch.pc \in { "provider", "attempt" })
            => /\ aiLog' = aiLog
               /\ orch'.pc \in { "after", "done" }
               /\ orch'.pc = "after" => orch'.last_err = "budget_exhausted"
               /\ orch'.pc = "done" => (returned' = << >> /\ BudgetReported)]_vars
    /\ [][(orch.pc = "after" /\ orch.last_err = "budget_exhausted")
            => (aiLog' = aiLog /\ orch'.pc = "done" /\ returned' = << >> /\ BudgetReported)]_vars

\* the budget ran out during the first call; the check before the second
\* attempt ended the loop and the caller reads budget_exhausted
C26_Witness ==
    /\ orch.pc = "done"
    /\ orch.cap_tries >= 2
    /\ Len(aiLog) = 1
    /\ aiLog[1].rem > 0
    /\ BudgetSpent
    /\ orch.has_debug
    /\ returned = << >>
    /\ debug_out.provider_error = << ProviderError("budget_exhausted") >>

\* the budget was spent before the provider was entered
BudgetSpentAtEntry ==
    /\ orch.pc = "done"
    /\ aiLog = << >>
    /\ orch.has_debug
    /\ debug_out.provider_error = << PlainError("budget_exhausted") >>

\* the time one attempt is given: the per-call timeout and the overhead
AttemptCost == PerAttempt + Overhead

\* the provider was entered with a budget; orch.rem is what remained then
EnteredWithBudget == orch.pc \in { "attempt", "after", "done" } /\ orch.rem # NoValue

C28_ReadTimeoutIsMin ==
    \A i \in 1..Len(aiLog) :
        aiLog[i].rem # NoValue
          => /\ aiLog[i].read = Min(PerAttempt, aiLog[i].rem - SafetyMargin)
             /\ aiLog[i].read <= aiLog[i].rem

\* C28, amended: with a budget the read timeout of every provider call is
\* max(3, min(configured timeout, remaining budget - safety margin)): between
\* 3 s and the configured timeout, and longer than the budget that remains
\* only when less than 3 s remain; without a budget no timeout is passed and
\* the client arms the configured one.
C28_ReadTimeoutIsFlooredMin ==
    \A i \in 1..Len(aiLog) :
        /\ aiLog[i].rem = NoValue => (aiLog[i].read = NoValue /\ ReadTimeout(aiLog[i].read) = PerAttempt)
        /\ aiLog[i].rem # NoValue
             => /\ aiLog[i].read = Max(MinRead, Min(PerAttempt, aiLog[i].rem - SafetyMargin))
                /\ aiLog[i].read >= MinRead
                /\ aiLog[i].read <= PerAttempt
                /\ aiLog[i].rem >= MinRead => aiLog[i].read <= aiLog[i].rem

\* the second call was made with less than the configured timeout left and
\* was given what remained less the margin
C28_Witness ==
    /\ Len(aiLog) = 2
    /\ aiLog[1].read = PerAttempt
    /\ aiLog[2].rem - SafetyMargin < PerAttempt
    /\ aiLog[2].read = aiLog[2].rem - SafetyMargin

\* a call given 3 s with less than that left
ReadFloored == \E i \in 1..Len(aiLog) : aiLog[i].rem # NoValue /\ aiLog[i].read > aiLog[i].rem

PromptsBefore(items, i) == {NormPrompt(items[j]) : j \in 1..(i - 1)}

\* a call whose batch the orchestrator could return
GoodCall(i) == aiLog[i].nvalid >= orch.min_q /\ ~aiLog[i].degenerate

\* C29: a non-empty result of the orchestrator has at least min_q and at
\* most the requested number of questions, every one accepted by the
\* validator, with normalized (lower-case) prompts pairwise distinct; the
\* result is empty when no call gave such a batch.
C29_ResultValidOrEmpty ==
    orch.pc = "done"
      => /\ returned # << >>
              => /\ Len(returned) >= orch.min_q
                 /\ Len(returned) <= orch.want
                 /\ \A i \in 1..Len(returned) : _is_valid_question(returned[i], PromptsBefore(returned, i))
                 /\ \A i, j \in 1..Len(returned) : i # j => NormPrompt(returned[i]) # NormPrompt(returned[j])
                 /\ GoodCall(Len(aiLog))
         /\ returned = << >> => \A i \in 1..Len(aiLog) : ~GoodCall(i)

\* with min_q equal to the three requested, a first call gave two valid
\* questions, which were not returned, and the second gave the three returned
C29_Witness ==
    /\ orch.pc = "done"
    /\ orch.min_q = 3
    /\ Len(aiLog) = 2
    /\ aiLog[1].nvalid = 2
    /\ Len(returned) = 3

\* C30 as stated: a batch in which at least three valid questions have the
\* same letter as their correct answer is discarded as degenerate, and the
\* attempt is made again.
C30_ThreeSharingDiscardedAndRetried ==
    \A i \in 1..Len(aiLog) :
        aiLog[i].share3
          => /\ aiLog[i].degenerate
             /\ orch.pc = "done" => i < Len(aiLog)

\* C30, amended: a batch of at least three valid questions is discarded as
\* degenerate (error degenerate_answers, nothing of it returned) exactly
\* when the answers of all its questions begin with the same letter; the
\* provider is then called again unless that was the last attempt the cap
\* allows, the health check had failed or the budget is spent.
C30_AllSameDiscarded ==
    \A i \in 1..Len(aiLog) :
        /\ aiLog[i].degenerate <=> (aiLog[i].nvalid >= 3 /\ aiLog[i].nletters = 1)
        /\ aiLog[i].degenerate
             => /\ aiLog[i].error = "degenerate_answers"
                /\ (orch.pc = "done" /\ i = Len(aiLog))
                     => /\ returned = << >>
                        /\ (i = orch.cap_tries \/ ~orch.ok_or \/ BudgetSpent)
                /\ (orch.pc = "attempt" /\ i = Len(aiLog)) => (i < orch.cap_tries /\ orch.ok_or)

\* the first call gave three valid questions that all had the answer A and
\* was discarded; the provider was called a second time
C30_Witness ==
    /\ Len(aiLog) = 2
    /\ aiLog[1].degenerate
    /\ aiLog[1].nvalid = 3
    /\ aiLog[1].share3
    /\ aiLog[1].error = "degenerate_answers"

\* four valid questions, three of them with the same answer, were returned
ThreeOfFourReturned ==
    /\ orch.pc = "done"
    /\ Len(returned) = 4
    /\ aiLog[Len(aiLog)].share3
    /\ ~aiLog[Len(aiLog)].degenerate

\* the attempt's response text existed and failed parsing, the schema or the
\* client's validation
TextFailed(i) ==
    /\ aiLog[i].content
    /\ aiLog[i].error \in { "invalid_json", "schema_validation_failed", "no_valid_questions" }

\* C31: whenever an attempt's response text exists but fails the schema or
\* the validation, the orchestrator makes exactly one repair call with that
\* text.
C31_RepairCallIssuedOnce ==
    \A i \in 1..Len(aiLog) : TextFailed(i) => aiLog[i].repairs = 1

\* ========================================================================
\* Claims about the heuristic generator
\* ========================================================================
\* a pass of the loop that cannot be made is an exception out of it
HeuristicRaises == heur.pc = "loop" /\ ~ENABLED HeuristicNext

LessonsOf(subs) == 1..(Len(subs) - 1)

Returned(ids) == IF DOMAIN ids = {} THEN 0 ELSE LET RECURSIVE Sum(_)
                                                    Sum(S) == IF S = {} THEN 0
                                                              ELSE LET q == CHOOSE x \in S : TRUE
                                                                   IN  ids[q] + Sum(S \ {q})
                                                IN  Sum(DOMAIN ids)

TakenOf(l) == Cardinality({q \in DOMAIN asm.returned : q[1] = l})

RECURSIVE SumOver(_, _, _)
SumOver(subs, lessons, cap) ==
    IF lessons = {} THEN 0
    ELSE LET l == CHOOSE x \in lessons : TRUE
         IN  Min(cap, subs[l]) + SumOver(subs, lessons \ {l}, cap)

FirstPhaseAboveFloor ==
    /\ asm.pc = "done"
    /\ asm.subs = WideModule
    /\ Returned(asm.returned) = 2 * MaxSubmodules

\* ========================================================================
\* Claims about read confirmations
\* ========================================================================
ReadEvents == {i \in 1..Len(events) : _meta_action_is_read(events[i])}

Awarded == {i \in 1..Len(awards) : awards[i] # 0}

\* C19 (as stated): whatever the order and the interleaving of a learner's
\* read confirmations for a lesson, at most one of them returns a non-zero
\* award and, once one has been answered, exactly one read event is stored.
C19_ReadXpOnce ==
    /\ Cardinality(Awarded) <= 1
    /\ Cardinality(ReadEvents) <= 1
    /\ (awards # << >> /\ \A p \in Readers : rd[p].pc = "idle") => Cardinality(ReadEvents) = 1
\* ========================================================================
\* Properties of the stage timing
\* ========================================================================
\* C24: after any sequence of _set_job_stage calls of a job the recorded
\* durations add up to the time between the job's first call and the start
\* of the current stage, and job_started_at is the time of the first call.
C24_DurationsSumToElapsed ==
    stageMeta.stage # ""
      => /\ stageMeta.job_started_at = firstStageAt
         /\ SumDurations(stageMeta.stage_durations_s, StageNames)
              = stageMeta.stage_started_at - firstStageAt

\* job_started_at is stamped by the first call and kept by the later ones
JobStartStampedOnce ==
    stageMeta.stage # "" => stageMeta.job_started_at = firstStageAt
\* ------------------------------------------------------------------------
\* Properties of the learner's quizzes across regenerations
\* ------------------------------------------------------------------------
\* a quiz that was created for a lesson (not for the final slot)
IsLessonQuiz(z) == QuizTypeOf(z) = "submodule" /\ LessonOf(z) \in LessonSubs

\* C34 (as stated): a start of a lesson quiz succeeds only if the learner has
\* confirmed reading the lesson the quiz belongs or belonged to; without the
\* confirmation no session of that quiz exists for the learner.
C34_StartNeedsReadConfirmation ==
    /\ \A z \in AllQuizIds :
          (IsLessonQuiz(z) /\ sessionOf[z].present) => LessonOf(z) \in readSubs
    /\ (lastOp.op = "start" /\ lastOp.status = "200" /\ IsLessonQuiz(lastOp.quiz))
          => LessonOf(lastOp.quiz) \in readSubs

\* a submit_quiz request for quiz z is answered in this step
SubmitStep(z) == submitsLeft' < submitsLeft /\ lastOp'.quiz = z

\* C36 (as stated): a submit of the final exam that finds the session written
\* by start is not refused by the ownership check, whether or not a
\* regeneration has committed since the start.
C36_FinalSessionSurvivesRegen ==
    [][(SubmitStep(FinalQuizId) /\ sessionOf[FinalQuizId].present)
        => lastOp'.status # "409 invalid questions"]_vars

\* C37 (as stated): the learner's attempts on a quiz never outnumber the
\* quiz's attempts limit.
C37_AttemptsWithinLimit ==
    \A z \in AllQuizIds : attemptCount[z] <= AttemptsLimit

\* C38 (as stated): a submit that repeats, with the same answers and with no
\* start in between, a submit that succeeded on a started session records no
\* second attempt and awards no XP.
C38_RepeatedSubmitRecordsNothing ==
    [][(/\ lastOp.op = "submit"
        /\ lastOp.recorded
        /\ lastOp.nserved > 0
        /\ SubmitStep(lastOp.quiz)
        /\ lastOp'.answered = lastOp.answered
        /\ lastOp'.right = lastOp.right)
       => /\ attemptCount' = attemptCount
          /\ userXp' = userXp]_vars

\* C39 (as stated): an attempt on questions that a start served is scored
\* over all of them: its total is the number of served questions.
C39_ScoredOverServedQuestions ==
    (lastOp.op = "submit" /\ lastOp.recorded /\ lastOp.nserved > 0)
        => lastOp.total = lastOp.nserved

\* C40 (as stated): the commit of a regeneration keeps every passed lesson
\* passed in the module progress and keeps every submodule that was
\* accessible under the linear rule accessible.
C40_PassSurvivesRegen ==
    [][regens' > regens
        => \A s \in ModuleSubmodules :
              /\ get_module_progress(s) => get_module_progress(s)'
              /\ can_access_submodule(s) => can_access_submodule(s)']_vars

\* ------------------------------------------------------------------------
\* Properties of the cancel flag in job.meta
\* ------------------------------------------------------------------------
\* a cancellation checkpoint reads the job's meta in this step
CheckpointReads ==
    /\ ~worker.loaded
    /\ worker'.loaded
    /\ ScriptOf(worker.script)[worker.at].op = "checkpoint"

\* C35 (as stated): once cancel_job has written the flag into the job's
\* stored meta, no write of the worker clears it, and a checkpoint that the
\* job reaches afterwards sees it.
C35_CancelFlagNeverLost ==
    /\ [][redisMeta.cancel_requested => redisMeta'.cancel_requested]_vars
    /\ [][(redisMeta.cancel_requested /\ CheckpointReads) => _is_cancel_requested(workerMeta')]_vars

====
